---- MODULE Spec2Model ----
(***************************************************************************)
(* SHAC simulator: the spatial scene (SpatialAudioEngine), the listener    *)
(* pose (MovementController), the canvas view with its drag handlers       *)
(* (Visualization), the coordinate panel (SourceManager) and file ingest   *)
(* (FileLoader, SHACSimulator.onFilesLoaded).                              *)
(*                                                                         *)
(* Numbers.  The program computes in IEEE doubles; the model computes the  *)
(* same expressions on a fixed-point grid:                                 *)
(*   - a world coordinate c is the integer c * Unit (Unit = 100 steps per  *)
(*     world unit, so that one pixel is 5 steps and 0.02 is 2 steps);      *)
(*   - a screen coordinate s (pixels) is the integer s * Unit;             *)
(*   - an angle a (degrees) is the integer a * DegStep (one step is 0.1    *)
(*     degree; one pixel of mouse look turns 0.2 degree, two steps);       *)
(*   - sin and cos are tabulated for the multiples of 3 degrees, scaled by *)
(*     Trig = 10000, and interpolated linearly in between;                 *)
(*   - a product with sin/cos is rounded to the nearest grid step, the     *)
(*     radial scale-back of the movement bubble is rounded toward the      *)
(*     origin.                                                             *)
(***************************************************************************)
EXTENDS Integers, Sequences, FiniteSets, TLC

\* ------------------------------------------------------------------ bounds
MaxSources == 2      \* sources created over the whole session
MaxNodes == 2        \* buffer-source nodes created over the whole session
MaxMoves == 1        \* listener position updates (movePlayer calls, resets)
MaxLooks == 1        \* listener orientation updates
MaxBatches == 1      \* file batches handed to FileLoader.handleFiles
MaxEvents == 5       \* events handled in one run of the whole program
MaxSteps == 36       \* events handled in one run of the movement controller
MaxDragEvents == 8   \* events handled in one run of the canvas drag handlers
MaxViewEvents == 6   \* events handled in one run of the render pass
MaxLoadBatches == 2  \* batches of files being decoded at once
MaxLoadSources == 3  \* sources ever created in one run of the file loader
MaxLoadEvents == 7   \* events handled in one run of the file loader
MaxClickEvents == 7  \* events handled in one run of the canvas click handlers
MaxLookEvents == 4   \* events handled in one run of the look controls

\* -------------------------------------------------------- program constants
scale == 20                       \* Visualization.scale, pixels per world unit
Unit == 5 * scale                 \* grid steps per world unit (and per pixel)
DegStep == 2 * 5                  \* grid steps per degree
sensitivity == DegStep \div 5     \* mouseLook.sensitivity, 0.2 degree per pixel
moveSpeed == Unit \div 2          \* 0.5
fastMoveSpeed == (3 * Unit) \div 2 \* 1.5
movementRadius == 50 * Unit       \* 50.0
deadzone == 15                    \* 0.15, in hundredths of full stick deflection
pickRadius == 30 * Unit           \* 30 pixels
centerX == 400 * Unit             \* canvas of 800 x 600 pixels: width / 2
centerY == 300 * Unit             \* height / 2
width == 2 * centerX
height == 2 * centerY

\* ----------------------------------------------------------------- numbers
Abs(n) == IF n < 0 THEN -n ELSE n

Sgn(n) == IF n < 0 THEN -1 ELSE IF n > 0 THEN 1 ELSE 0

\* n / d rounded to the nearest integer, halves away from zero (d > 0)
Round(n, d) == Sgn(n) * ((2 * Abs(n) + d) \div (2 * d))

\* n / d rounded toward zero (d > 0)
Trunc(n, d) == Sgn(n) * (Abs(n) \div d)

Max(a, b) == IF a > b THEN a ELSE b

Min(a, b) == IF a < b THEN a ELSE b

RECURSIVE SqrtSearch(_, _, _)
\* the least r in lo..hi with r * r >= n
SqrtSearch(n, lo, hi) ==
    IF lo >= hi THEN lo
    ELSE LET mid == (lo + hi) \div 2
         IN  IF mid * mid >= n THEN SqrtSearch(n, lo, mid)
             ELSE SqrtSearch(n, mid + 1, hi)

\* Math.sqrt rounded up to the grid (n < 2^31)
CeilSqrt(n) == SqrtSearch(n, 0, 46340)

\* sin(3k degrees) * 10000 for k = 0..30
SinTab ==
    << 0, 523, 1045, 1564, 2079, 2588, 3090, 3584, 4067, 4540, 5000,
       5446, 5878, 6293, 6691, 7071, 7431, 7771, 8090, 8387, 8660,
       8910, 9135, 9336, 9511, 9659, 9781, 9877, 9945, 9986, 10000 >>

Trig == SinTab[31]

\* sin of t tenths of a degree, 0 <= t <= 900, scaled by Trig
SinQ(t) ==
    LET k == t \div 30
        r == t % 30
        lo == SinTab[k + 1]
        hi == SinTab[Min(k + 2, 31)]
    IN  lo + ((hi - lo) * r) \div 30

\* Math.sin of an angle given in angle steps, scaled by Trig
Sin(a) ==
    LET m == a % (360 * DegStep)
    IN  IF m <= 90 * DegStep THEN SinQ(m)
        ELSE IF m <= 180 * DegStep THEN SinQ(180 * DegStep - m)
        ELSE IF m <= 270 * DegStep THEN -SinQ(m - 180 * DegStep)
        ELSE -SinQ(360 * DegStep - m)

\* Math.cos of an angle given in angle steps, scaled by Trig
Cos(a) == Sin(a + 90 * DegStep)

RECURSIVE OctantSearch(_, _, _, _)
\* the greatest k in lo..hi (in 0.2 degree) with tan(k) <= mn / mx
OctantSearch(mn, mx, lo, hi) ==
    IF lo >= hi THEN lo
    ELSE LET mid == (lo + hi + 1) \div 2
         IN  IF mx * SinQ(2 * mid) <= mn * Sin(2 * mid + 90 * DegStep)
             THEN OctantSearch(mn, mx, mid, hi)
             ELSE OctantSearch(mn, mx, lo, mid - 1)

\* atan(mn / mx) for 0 <= mn <= mx, mx > 0, in angle steps.  On a rational grid
\* the angle is a whole number of steps only for 0 and 45 degrees; any other
\* direction lies strictly between two multiples of 0.2 degree and is given
\* as the odd step between them.
Octant(mn, mx) ==
    IF mn = 0 THEN 0
    ELSE IF mn = mx THEN 45 * DegStep
    ELSE 2 * OctantSearch(mn, mx, 0, (45 * DegStep) \div 2 - 1) + 1

\* Math.atan2(x, z) * (180 / Math.PI), in angle steps, in (-180, 180] degrees
Atan2(x, z) ==
    LET a == Abs(x)
        b == Abs(z)
        phi == IF a = 0 /\ b = 0 THEN 0
               ELSE IF a <= b THEN Octant(a, b)
               ELSE 90 * DegStep - Octant(b, a)
        front == IF z >= 0 THEN phi ELSE 180 * DegStep - phi
    IN  IF x >= 0 THEN front ELSE -front

Vec(a, b, c) == [x |-> a, y |-> b, z |-> c]

Origin == Vec(0, 0, 0)

VSub(p, q) == Vec(p.x - q.x, p.y - q.y, p.z - q.z)

SqNorm(p) == p.x * p.x + p.y * p.y + p.z * p.z

\* ------------------------------------------------------------------- state
VARIABLES
    sources,          \* SpatialAudioEngine: every source object created, by id
    order,            \* the keys of the engine's sources Map, in insertion order
    nextSourceId,     \* SpatialAudioEngine.nextSourceId
    nodes,            \* the audio routes created (buffer source + gain + panner)
    listener,         \* SpatialAudioEngine.listener
    isPlaying,        \* SpatialAudioEngine.isPlaying
    orientation,      \* forward vector held by the AudioListener (times Trig)
    player,           \* MovementController.player
    playerFacing,     \* MovementController.playerFacing (yaw)
    playerPitch,      \* MovementController.playerPitch
    pointerLocked,    \* mouseLook.isLocked / document.pointerLockElement === canvas
    nMoves,           \* position updates so far (bounded by MaxMoves)
    nLooks,           \* orientation updates so far (bounded by MaxLooks)
    viewMode,         \* Visualization.viewMode
    compositionMode,  \* Visualization.compositionMode
    isDragging,       \* Visualization.isDragging
    draggedSource,    \* Visualization.draggedSource: a source id, 0 for null
    dragOffset,       \* Visualization.dragOffset
    playerPos,        \* Visualization.playerPos (stored by render)
    visSources,       \* Visualization.sources (stored by render): ids
    cursor,           \* canvas.style.cursor
    frame,            \* what the latest render pass drew
    batches,          \* FileLoader.handleFiles calls in flight
    timers,           \* auto-play timers scheduled by onFilesLoaded, not yet fired
    appPlaying,       \* SHACSimulator.isPlaying
    effects,          \* the audio effects of the latest event, in order
    unlockedAt,       \* history: per source, its position when last unlocked
    budget            \* events the model still lets happen

engineVars == <<sources, order, nextSourceId, nodes, listener, isPlaying, orientation>>

moveVars == <<player, playerFacing, playerPitch, pointerLocked, nMoves, nLooks>>

dragVars == <<isDragging, draggedSource, dragOffset, cursor>>

viewVars == <<viewMode, compositionMode, playerPos, visSources, frame>>

appVars == <<batches, timers, appPlaying>>

vars == <<engineVars, moveVars, dragVars, viewVars, appVars, effects, unlockedAt, budget>>

\* ------------------------------------------------------- SpatialAudioEngine
\* The engine's methods are functions from engine state to engine state; E is
\* the record [sources, order, nextSourceId, nodes, listener, isPlaying, fx],
\* fx being the audio effects issued so far by the running handler.
Engine ==
    [sources |-> sources, order |-> order, nextSourceId |-> nextSourceId,
     nodes |-> nodes, listener |-> listener, isPlaying |-> isPlaying, fx |-> <<>>]

Ids(E) == {E.order[i] : i \in 1..Len(E.order)}

\* this.sources.get(sourceId) finds a source
Has(E, id) == id \in Ids(E)

NullRoute == 0

\* updateSourcePosition(panner, sourcePosition): the offset from the listener
updateSourcePosition(E, h, sourcePosition) ==
    [E EXCEPT !.nodes[h].pan = VSub(sourcePosition, E.listener),
              !.fx = Append(@, <<"panner", h>>)]

\* node.stop(): playback of the node ends and its ended event is queued
stopNode(E, h) ==
    [E EXCEPT !.nodes[h].playing = FALSE,
              !.nodes[h].pending = E.nodes[h].playing \/ @,
              !.fx = Append(@, <<"stop", h>>)]

\* createSource if it numbered a new source by the size of the Map
createSourceBySize(E, position) ==
    LET sourceId == Len(E.order) + 1
        source == [id |-> sourceId, position |-> position, volume |-> Unit,
                   locked |-> FALSE, node |-> NullRoute, panner |-> NullRoute,
                   gainNode |-> NullRoute, isPlaying |-> FALSE]
    IN  [E EXCEPT !.nextSourceId = @ + 1,
                  !.sources = [i \in DOMAIN @ \cup {sourceId} |->
                                  IF i = sourceId THEN source ELSE @[i]],
                  !.order = Append(@, sourceId)]

createSource(E, position) ==
    LET sourceId == E.nextSourceId
        source == [id |-> sourceId, position |-> position, volume |-> Unit,
                   locked |-> FALSE, node |-> NullRoute, panner |-> NullRoute,
                   gainNode |-> NullRoute, isPlaying |-> FALSE]
    IN  [E EXCEPT !.nextSourceId = @ + 1,
                  !.sources = [i \in DOMAIN @ \cup {sourceId} |->
                                  IF i = sourceId THEN source ELSE @[i]],
                  !.order = Append(@, sourceId)]

startSource(E, sourceId) ==
    IF ~Has(E, sourceId) THEN E
    ELSE LET source == E.sources[sourceId]
             E1 == IF source.node # NullRoute THEN stopNode(E, source.node) ELSE E
             h == Len(E1.nodes) + 1
             route == [owner |-> sourceId, playing |-> FALSE, pending |-> FALSE,
                       pan |-> Origin, gain |-> source.volume]
             E2 == [E1 EXCEPT !.nodes = Append(@, route),
                              !.fx = Append(@, <<"gain", h>>)]
             E3 == updateSourcePosition(E2, h, source.position)
         IN  [E3 EXCEPT !.sources[sourceId].node = h,
                        !.sources[sourceId].gainNode = h,
                        !.sources[sourceId].panner = h,
                        !.sources[sourceId].isPlaying = TRUE,
                        !.nodes[h].playing = TRUE,
                        !.fx = Append(@, <<"start", h>>)]

\* stopSource without the test of source.node
stopSourceUnguarded(E, sourceId) ==
    IF ~Has(E, sourceId) THEN E
    ELSE [E EXCEPT !.sources[sourceId].node = NullRoute,
                   !.sources[sourceId].gainNode = NullRoute,
                   !.sources[sourceId].panner = NullRoute,
                   !.sources[sourceId].isPlaying = FALSE,
                   !.fx = Append(@, <<"stop", E.sources[sourceId].node>>)]

\* stopSource if it left the gain node on the source
stopSourceKeepGain(E, sourceId) ==
    IF ~Has(E, sourceId) \/ E.sources[sourceId].node = NullRoute THEN E
    ELSE LET E1 == stopNode(E, E.sources[sourceId].node)
         IN  [E1 EXCEPT !.sources[sourceId].node = NullRoute,
                        !.sources[sourceId].panner = NullRoute,
                        !.sources[sourceId].isPlaying = FALSE]

stopSource(E, sourceId) ==
    IF ~Has(E, sourceId) \/ E.sources[sourceId].node = NullRoute THEN E
    ELSE LET E1 == stopNode(E, E.sources[sourceId].node)
         IN  [E1 EXCEPT !.sources[sourceId].node = NullRoute,
                        !.sources[sourceId].gainNode = NullRoute,
                        !.sources[sourceId].panner = NullRoute,
                        !.sources[sourceId].isPlaying = FALSE]

\* removeSource without the stopSource call
removeSourceKeepRoute(E, sourceId) ==
    IF ~Has(E, sourceId) THEN E
    ELSE [E EXCEPT !.order = SelectSeq(@, LAMBDA i : i # sourceId),
                   !.fx = Append(@, <<"delete", sourceId>>)]

removeSource(E, sourceId) ==
    IF ~Has(E, sourceId) THEN E
    ELSE LET E1 == stopSource(E, sourceId)
         IN  [E1 EXCEPT !.order = SelectSeq(@, LAMBDA i : i # sourceId),
                        !.fx = Append(@, <<"delete", sourceId>>)]

RECURSIVE startEach(_, _)
\* this.sources.forEach((source, sourceId) => this.startSource(sourceId))
startEach(E, ids) ==
    IF ids = <<>> THEN E ELSE startEach(startSource(E, Head(ids)), Tail(ids))

playAll(E) == [startEach(E, E.order) EXCEPT !.isPlaying = TRUE]

RECURSIVE stopEach(_, _)
\* this.sources.forEach((source, sourceId) => this.stopSource(sourceId))
stopEach(E, ids) ==
    IF ids = <<>> THEN E ELSE stopEach(stopSource(E, Head(ids)), Tail(ids))

pauseAll(E) == [stopEach(E, E.order) EXCEPT !.isPlaying = FALSE]

\* setSourceVolume without Math.max(0, Math.min(1, volume))
setSourceVolumeUnclamped(E, sourceId, volume) ==
    IF ~Has(E, sourceId) THEN E
    ELSE LET E1 == [E EXCEPT !.sources[sourceId].volume = volume]
             g == E.sources[sourceId].gainNode
         IN  IF g # NullRoute
             THEN [E1 EXCEPT !.nodes[g].gain = volume, !.fx = Append(@, <<"gain", g>>)]
             ELSE E1

setSourceVolume(E, sourceId, volume) ==
    IF ~Has(E, sourceId) THEN E
    ELSE LET v == Max(0, Min(Unit, volume))
             E1 == [E EXCEPT !.sources[sourceId].volume = v]
             g == E.sources[sourceId].gainNode
         IN  IF g # NullRoute
             THEN [E1 EXCEPT !.nodes[g].gain = v, !.fx = Append(@, <<"gain", g>>)]
             ELSE E1

\* setSourcePosition that puts a source object it is handed back into the Map
setSourcePositionUpsert(E, sourceId, position) ==
    IF sourceId \notin DOMAIN E.sources THEN E
    ELSE LET E1 == [E EXCEPT !.sources[sourceId].position = position,
                             !.order = IF Has(E, sourceId) THEN @
                                       ELSE Append(@, sourceId)]
             p == E.sources[sourceId].panner
         IN  IF p # NullRoute THEN updateSourcePosition(E1, p, position) ELSE E1

\* setSourcePosition with the position stored only under the panner test
setSourcePositionIfRouted(E, sourceId, position) ==
    IF ~Has(E, sourceId) THEN E
    ELSE LET p == E.sources[sourceId].panner
         IN  IF p # NullRoute
             THEN updateSourcePosition([E EXCEPT !.sources[sourceId].position = position],
                                       p, position)
             ELSE E

setSourcePosition(E, sourceId, position) ==
    IF ~Has(E, sourceId) THEN E
    ELSE LET E1 == [E EXCEPT !.sources[sourceId].position = position]
             p == E.sources[sourceId].panner
         IN  IF p # NullRoute THEN updateSourcePosition(E1, p, position) ELSE E1

RECURSIVE repositionEachUnguarded(_, _)
\* the forEach of updateListenerPosition without the test of source.panner
repositionEachUnguarded(E, ids) ==
    IF ids = <<>> THEN E
    ELSE LET source == E.sources[Head(ids)]
             E1 == [E EXCEPT !.fx = Append(@, <<"panner", source.panner>>)]
         IN  repositionEachUnguarded(E1, Tail(ids))

RECURSIVE repositionEach(_, _)
\* this.sources.forEach(source => { if (source.panner) updateSourcePosition(...) })
repositionEach(E, ids) ==
    IF ids = <<>> THEN E
    ELSE LET source == E.sources[Head(ids)]
             E1 == IF source.panner # NullRoute
                   THEN updateSourcePosition(E, source.panner, source.position)
                   ELSE E
         IN  repositionEach(E1, Tail(ids))

\* updateListenerPosition without the forEach over the sources
updateListenerPositionOnly(E, position) == [E EXCEPT !.listener = position]

updateListenerPosition(E, position) ==
    repositionEach([E EXCEPT !.listener = position], E.order)

toggleSourceLock(E, sourceId) ==
    IF ~Has(E, sourceId) THEN E
    ELSE [E EXCEPT !.sources[sourceId].locked = ~@]

setSourceLocked(E, sourceId, locked) ==
    IF ~Has(E, sourceId) THEN E
    ELSE [E EXCEPT !.sources[sourceId].locked = locked]

\* the forward vector updateListenerOrientation writes, times Trig
forwardVector(yaw, pitch) ==
    Vec(Round(Sin(yaw) * Cos(pitch), Trig), Sin(pitch),
        -Round(Cos(yaw) * Cos(pitch), Trig))

\* the handler's engine state becomes the engine's state
Commit(E) ==
    /\ sources' = E.sources
    /\ order' = E.order
    /\ nextSourceId' = E.nextSourceId
    /\ nodes' = E.nodes
    /\ listener' = E.listener
    /\ isPlaying' = E.isPlaying

\* the sources whose lock the running handler has released
Released(E) == {id \in DOMAIN sources : sources[id].locked /\ ~E.sources[id].locked}

\* one more event is handled, with the audio effects E.fx
Step(E) ==
    /\ budget > 0
    /\ budget' = budget - 1
    /\ effects' = E.fx
    /\ unlockedAt' = [id \in DOMAIN unlockedAt \cup Released(E) |->
                         IF id \in Released(E) THEN E.sources[id].position
                         ELSE unlockedAt[id]]

\* one more event is handled, with no audio effect and no engine call
Quietly == Step(Engine)

\* ------------------------------------------------------ MovementController
\* movePlayer without the pull back onto the movement bubble
movePlayerUnclamped(p, facing, dx, dy, dz) ==
    LET worldDx == Round(dz * Sin(facing), Trig) + Round(dx * Cos(facing), Trig)
        worldDz == Round(dz * Cos(facing), Trig) - Round(dx * Sin(facing), Trig)
    IN  Vec(p.x + worldDx, p.y + dy, p.z + worldDz)

\* movePlayer if strafing right turned the other way round the listener
movePlayerMirrored(p, facing, dx, dy, dz) ==
    LET worldDx == Round(dz * Sin(facing), Trig) - Round(dx * Cos(facing), Trig)
        worldDz == Round(dz * Cos(facing), Trig) + Round(dx * Sin(facing), Trig)
        q == Vec(p.x + worldDx, p.y + dy, p.z + worldDz)
        d8 == CeilSqrt(64 * SqNorm(q))
    IN  IF SqNorm(q) > movementRadius * movementRadius
        THEN Vec(Trunc(q.x * movementRadius * 8, d8),
                 Trunc(q.y * movementRadius * 8, d8),
                 Trunc(q.z * movementRadius * 8, d8))
        ELSE q

\* movePlayer if each axis were clamped to the radius on its own
movePlayerBoxClamp(p, facing, dx, dy, dz) ==
    LET q == movePlayerUnclamped(p, facing, dx, dy, dz)
    IN  Vec(Max(-movementRadius, Min(movementRadius, q.x)),
            Max(-movementRadius, Min(movementRadius, q.y)),
            Max(-movementRadius, Min(movementRadius, q.z)))

\* movePlayer: the view-relative delta turned by the yaw, added, and the
\* result pulled back onto the movement bubble
movePlayer(p, facing, dx, dy, dz) ==
    LET worldDx == Round(dz * Sin(facing), Trig) + Round(dx * Cos(facing), Trig)
        worldDz == Round(dz * Cos(facing), Trig) - Round(dx * Sin(facing), Trig)
        worldDy == dy
        q == Vec(p.x + worldDx, p.y + worldDy, p.z + worldDz)
        \* distanceFromOrigin > movementRadius, compared as squares
        outside == SqNorm(q) > movementRadius * movementRadius
        \* 8 * distanceFromOrigin, rounded up
        d8 == CeilSqrt(64 * SqNorm(q))
    IN  IF outside
        THEN Vec(Trunc(q.x * movementRadius * 8, d8),
                 Trunc(q.y * movementRadius * 8, d8),
                 Trunc(q.z * movementRadius * 8, d8))
        ELSE q

\* the yaw after handleMouseMove: one step of normalisation each way
mouseYaw(facing, deltaX) ==
    LET f0 == facing + deltaX * sensitivity
        f1 == IF f0 < 0 THEN f0 + 360 * DegStep ELSE f0
    IN  IF f1 >= 360 * DegStep THEN f1 - 360 * DegStep ELSE f1

\* the pitch after handleMouseMove if it were left unclamped
mousePitchUnclamped(pitch, deltaY) == pitch - deltaY * sensitivity

\* the pitch after handleMouseMove
mousePitch(pitch, deltaY) ==
    Max(-90 * DegStep, Min(90 * DegStep, pitch - deltaY * sensitivity))

\* the yaw after a right-stick sample rx (hundredths of full deflection)
gamepadYaw(facing, rx) == facing + Round(rx * 3 * DegStep, 100)

\* the pitch after a right-stick sample ry
gamepadPitch(pitch, ry) ==
    Max(-89 * DegStep, Min(89 * DegStep, pitch - Round(ry * 3 * DegStep, 100)))

\* Math.abs(axis) > deadzone ? axis : 0
Stick(axis) == IF Abs(axis) > deadzone THEN axis ELSE 0

\* the (strafe, vertical, forward) delta of a key, if it moves the player
KeyDelta(key, speed) ==
    CASE key \in {"w", "arrowup"} -> Vec(0, 0, speed)
      [] key \in {"s", "arrowdown"} -> Vec(0, 0, -speed)
      [] key \in {"a", "arrowleft"} -> Vec(-speed, 0, 0)
      [] key \in {"d", "arrowright"} -> Vec(speed, 0, 0)
      [] key = "q" -> Vec(0, speed, 0)
      [] key = "e" -> Vec(0, -speed, 0)
      [] OTHER -> Origin

MoveKeys == {"w", "arrowup", "s", "arrowdown", "a", "arrowleft", "d", "arrowright", "q", "e"}

handleKeyDown(key, shiftKey) ==
    /\ key \in MoveKeys
    /\ LET speed == IF shiftKey THEN fastMoveSpeed ELSE moveSpeed
           d == KeyDelta(key, speed)
           p == movePlayer(player, playerFacing, d.x, d.y, d.z)
           E == updateListenerPosition(Engine, p)
       IN  /\ player' = p
           /\ Commit(E)
           /\ Step(E)
    /\ nMoves' = nMoves + 1
    /\ UNCHANGED <<orientation, playerFacing, playerPitch, pointerLocked, nLooks>>
    /\ UNCHANGED <<dragVars, viewVars, appVars>>

handleMouseMove(deltaX, deltaY) ==
    /\ pointerLocked
    /\ playerFacing' = mouseYaw(playerFacing, deltaX)
    /\ playerPitch' = mousePitch(playerPitch, deltaY)
    /\ orientation' = forwardVector(playerFacing', playerPitch')
    /\ nLooks' = nLooks + 1
    /\ Quietly
    /\ UNCHANGED <<sources, order, nextSourceId, nodes, listener, isPlaying>>
    /\ UNCHANGED <<player, pointerLocked, nMoves, dragVars, viewVars, appVars>>

\* one animation frame of updateGamepad with a connected gamepad: axes in
\* hundredths of full deflection, rb / lb the bumpers (buttons 5 and 4)
updateGamepad(a0, a1, a2, a3, rb, lb) ==
    LET lx == Stick(a0)
        ly == Stick(a1)
        rx == Stick(a2)
        ry == Stick(a3)
        moved == lx # 0 \/ ly # 0 \/ rb \/ lb
        looked == rx # 0 \/ ry # 0
        strafe == Round(lx * Unit, 500)
        forward == Round(-ly * Unit, 500)
        p1 == IF lx # 0 \/ ly # 0
              THEN movePlayer(player, playerFacing, strafe, 0, forward)
              ELSE player
        facing == IF looked THEN gamepadYaw(playerFacing, rx) ELSE playerFacing
        pitch == IF looked THEN gamepadPitch(playerPitch, ry) ELSE playerPitch
        p2 == IF rb THEN movePlayer(p1, facing, 0, Unit \div 50, 0) ELSE p1
        p3 == IF lb THEN movePlayer(p2, facing, 0, -(Unit \div 50), 0) ELSE p2
        E1 == IF lx # 0 \/ ly # 0 THEN updateListenerPosition(Engine, p1) ELSE Engine
        E2 == IF rb THEN updateListenerPosition(E1, p2) ELSE E1
        E == IF lb THEN updateListenerPosition(E2, p3) ELSE E2
    IN  /\ moved \/ looked
        /\ player' = p3
        /\ playerFacing' = facing
        /\ playerPitch' = pitch
        /\ orientation' = IF looked THEN forwardVector(facing, pitch) ELSE orientation
        /\ nMoves' = IF moved THEN nMoves + 1 ELSE nMoves
        /\ nLooks' = IF looked THEN nLooks + 1 ELSE nLooks
        /\ Commit(E)
        /\ Step(E)
        /\ UNCHANGED <<pointerLocked, dragVars, viewVars, appVars>>

\* resetPosition without the two calls into the audio engine
resetPositionLocal ==
    /\ player' = Origin
    /\ playerFacing' = 0
    /\ playerPitch' = 0
    /\ Quietly
    /\ UNCHANGED <<engineVars, pointerLocked, nMoves, nLooks, dragVars, viewVars, appVars>>

resetPosition ==
    /\ player' = Origin
    /\ playerFacing' = 0
    /\ playerPitch' = 0
    /\ LET E == updateListenerPosition(Engine, Origin)
       IN  Commit(E) /\ Step(E)
    /\ orientation' = forwardVector(0, 0)
    /\ UNCHANGED <<pointerLocked, nMoves, nLooks, dragVars, viewVars, appVars>>

\* a click on the canvas: pointer lock is requested (and granted) unless the
\* cursor shows 'grab'
handleCanvasClick ==
    /\ ~pointerLocked
    /\ cursor # "grab"
    /\ pointerLocked' = TRUE
    /\ Quietly
    /\ UNCHANGED <<engineVars, player, playerFacing, playerPitch, nMoves, nLooks>>
    /\ UNCHANGED <<dragVars, viewVars, appVars>>

\* ESC: the browser releases the pointer lock (handlePointerLockChange)
handlePointerLockChange ==
    /\ pointerLocked
    /\ pointerLocked' = FALSE
    /\ Quietly
    /\ UNCHANGED <<engineVars, player, playerFacing, playerPitch, nMoves, nLooks>>
    /\ UNCHANGED <<dragVars, viewVars, appVars>>

\* ------------------------------------------------------------ Visualization
Pt(a, b) == [x |-> a, y |-> b]

\* this.positionsLocked is never assigned: undefined, which is falsy
positionsLocked == FALSE

\* Math.sqrt(dx * dx + dy * dy) < 30, compared as squares
WithinPick(dx, dy) ==
    /\ Abs(dx) < pickRadius
    /\ Abs(dy) < pickRadius
    /\ dx * dx + dy * dy < pickRadius * pickRadius

\* the screen position onMouseDown computes for a source
hitScreen(source, composition, pp) ==
    IF composition
    THEN Pt(centerX + source.position.x * scale, centerY - source.position.z * scale)
    ELSE Pt(centerX + (source.position.x - pp.x) * scale,
            centerY - (source.position.z - pp.z) * scale)

\* the screen position the hover branch of onMouseMove computes for a source
hoverScreen(source, composition, pp) ==
    IF composition
    THEN Pt(centerX + source.position.x * scale, centerY - source.position.z * scale)
    ELSE Pt(centerX + (source.position.x - pp.x) * scale,
            centerY - (source.position.z - pp.z) * scale)

\* the screen position of drawSource if it projected world positions in both modes
drawScreenWorld(source, composition, pp) ==
    Pt(centerX + source.position.x * scale, centerY - source.position.z * scale)

\* the screen position drawSource computes for a source
drawScreen(source, composition, pp) ==
    IF composition
    THEN Pt(centerX + source.position.x * scale, centerY - source.position.z * scale)
    ELSE LET relativeX == source.position.x - pp.x
             relativeZ == source.position.z - pp.z
         IN  Pt(centerX + relativeX * scale, centerY - relativeZ * scale)

\* the drag branch of onMouseMove if it ignored the grab offset
dragWorldNoOffset(mouse, offset, composition, pp, y) ==
    LET wx == Round(mouse.x - centerX, scale)
        wz == -Round(mouse.y - centerY, scale)
    IN  IF composition THEN Vec(wx, y, wz) ELSE Vec(wx + pp.x, y, wz + pp.z)

\* the drag branch of onMouseMove without the listener offset of Authoring mode
dragWorldNoListener(mouse, offset, composition, pp, y) ==
    Vec(Round((mouse.x - offset.x) - centerX, scale), y,
        -Round((mouse.y - offset.y) - centerY, scale))

\* the world position the drag branch of onMouseMove computes
dragWorld(mouse, offset, composition, pp, y) ==
    LET wx == Round((mouse.x - offset.x) - centerX, scale)
        wz == -Round((mouse.y - offset.y) - centerY, scale)
    IN  IF composition THEN Vec(wx, y, wz) ELSE Vec(wx + pp.x, y, wz + pp.z)

RECURSIVE Normalize(_)
\* while (azimuth > 180) azimuth -= 360; while (azimuth < -180) azimuth += 360
Normalize(az) ==
    IF az > 180 * DegStep THEN Normalize(az - 360 * DegStep)
    ELSE IF az < -180 * DegStep THEN Normalize(az + 360 * DegStep)
    ELSE az

\* the view-relative azimuth drawSource computes
azimuthOf(relativeX, relativeZ, facing) == Normalize(Atan2(relativeX, relativeZ) - facing)

\* whether the FOV culling of drawSource is applied at all
cullingOn(view) == view = "firstperson" /\ ~positionsLocked

\* drawSource if it culled from 90 degrees on
drawSourceCullFrom90(source, pp, facing, view, composition) ==
    LET at == drawScreen(source, composition, pp)
        relativeX == source.position.x - pp.x
        relativeZ == source.position.z - pp.z
        coincident == relativeX * relativeX + relativeZ * relativeZ = 0
        behind == /\ cullingOn(view)
                  /\ Abs(azimuthOf(relativeX, relativeZ, facing)) >= 90 * DegStep
        off == \/ at.x < -50 * Unit
               \/ at.x > width + 50 * Unit
               \/ at.y < -50 * Unit
               \/ at.y > height + 50 * Unit
    IN  [at |-> at,
         verdict |-> IF coincident THEN "coincident"
                     ELSE IF behind THEN "culled"
                     ELSE IF off THEN "offscreen"
                     ELSE "drawn"]

\* drawSource: where the source is drawn, or why it is not
drawSource(source, pp, facing, view, composition) ==
    LET at == drawScreen(source, composition, pp)
        relativeX == source.position.x - pp.x
        relativeZ == source.position.z - pp.z
        \* distance < 0.001: a tenth of a grid step, so the distance is 0
        coincident == relativeX * relativeX + relativeZ * relativeZ = 0
        behind == /\ cullingOn(view)
                  /\ Abs(azimuthOf(relativeX, relativeZ, facing)) > 90 * DegStep
        off == \/ at.x < -50 * Unit
               \/ at.x > width + 50 * Unit
               \/ at.y < -50 * Unit
               \/ at.y > height + 50 * Unit
    IN  [at |-> at,
         verdict |-> IF coincident THEN "coincident"
                     ELSE IF behind THEN "culled"
                     ELSE IF off THEN "offscreen"
                     ELSE "drawn"]

\* drawPlayer: where the listener marker is drawn
drawPlayer(pp, composition) ==
    IF composition THEN Pt(centerX + pp.x * scale, centerY - pp.z * scale)
    ELSE Pt(centerX, centerY)

\* drawAngleLines: the line drawn for a source
drawAngleLine(source, pp) ==
    [from |-> Pt(centerX, centerY),
     to |-> Pt(centerX + (source.position.x - pp.x) * scale,
               centerY - (source.position.z - pp.z) * scale)]

SeqSet(q) == {q[i] : i \in 1..Len(q)}

\* render(player, sources, playerFacing), called by the render loop with the
\* movement controller's position and the engine's getSources()
render ==
    /\ playerPos' = player
    /\ visSources' = order
    /\ frame' = [src |-> [id \in SeqSet(order) |->
                            drawSource(sources[id], player, playerFacing,
                                       viewMode, compositionMode)],
                 lines |-> [id \in SeqSet(order) |-> drawAngleLine(sources[id], player)],
                 player |-> drawPlayer(player, compositionMode),
                 view |-> viewMode, composition |-> compositionMode]
    /\ Quietly
    /\ UNCHANGED <<engineVars, moveVars, dragVars, viewMode, compositionMode, appVars>>

RECURSIVE firstHitAnyLock(_, _)
\* the for loop of onMouseDown without the test of source.locked
firstHitAnyLock(ids, mouse) ==
    IF ids = <<>> THEN 0
    ELSE LET at == hitScreen(sources[Head(ids)], compositionMode, playerPos)
         IN  IF WithinPick(mouse.x - at.x, mouse.y - at.y)
             THEN Head(ids)
             ELSE firstHitAnyLock(Tail(ids), mouse)

RECURSIVE lastHit(_, _)
\* the for loop of onMouseDown without the break
lastHit(ids, mouse) ==
    IF ids = <<>> THEN 0
    ELSE LET source == sources[Head(ids)]
             at == hitScreen(source, compositionMode, playerPos)
             later == lastHit(Tail(ids), mouse)
         IN  IF later # 0 THEN later
             ELSE IF ~source.locked /\ WithinPick(mouse.x - at.x, mouse.y - at.y)
             THEN Head(ids)
             ELSE 0

RECURSIVE firstHit(_, _)
\* the for loop of onMouseDown: the first unlocked source within the pick
\* radius of the pointer, 0 if there is none
firstHit(ids, mouse) ==
    IF ids = <<>> THEN 0
    ELSE LET source == sources[Head(ids)]
             at == hitScreen(source, compositionMode, playerPos)
         IN  IF ~source.locked /\ WithinPick(mouse.x - at.x, mouse.y - at.y)
             THEN Head(ids)
             ELSE firstHit(Tail(ids), mouse)

onMouseDown(mouse) ==
    /\ ~pointerLocked
    /\ LET hit == firstHit(visSources, mouse)
           at == hitScreen(sources[hit], compositionMode, playerPos)
       IN  IF hit # 0
           THEN /\ isDragging' = TRUE
                /\ draggedSource' = hit
                /\ dragOffset' = Pt(mouse.x - at.x, mouse.y - at.y)
                /\ cursor' = "grabbing"
                /\ Quietly
           ELSE /\ UNCHANGED dragVars
                /\ Quietly
    /\ UNCHANGED <<engineVars, moveVars, viewVars, appVars>>

RECURSIVE hovering(_, _)
\* the for loop of the hover branch of onMouseMove
hovering(ids, mouse) ==
    IF ids = <<>> THEN FALSE
    ELSE LET source == sources[Head(ids)]
             at == hoverScreen(source, compositionMode, playerPos)
         IN  IF ~source.locked /\ WithinPick(mouse.x - at.x, mouse.y - at.y)
             THEN TRUE
             ELSE hovering(Tail(ids), mouse)

onMouseMove(mouse) ==
    /\ ~pointerLocked
    /\ IF isDragging /\ draggedSource # 0
       THEN LET world == dragWorld(mouse, dragOffset, compositionMode, playerPos,
                                   sources[draggedSource].position.y)
                E == setSourcePosition(Engine, draggedSource, world)
            IN  /\ Commit(E)
                /\ Step(E)
                /\ UNCHANGED cursor
       ELSE /\ cursor' = IF hovering(visSources, mouse) THEN "grab" ELSE "default"
            /\ Quietly
            /\ UNCHANGED <<sources, order, nextSourceId, nodes, listener, isPlaying>>
    /\ UNCHANGED <<orientation, moveVars, isDragging, draggedSource, dragOffset>>
    /\ UNCHANGED <<viewVars, appVars>>

\* onMouseUp if it cleared the flag but kept the drag target
onMouseUpKeepTarget ==
    /\ isDragging' = FALSE
    /\ cursor' = "default"
    /\ UNCHANGED <<draggedSource, dragOffset>>
    /\ Quietly
    /\ UNCHANGED <<engineVars, moveVars, viewVars, appVars>>

\* mouseup and mouseleave
onMouseUp ==
    /\ isDragging' = FALSE
    /\ draggedSource' = 0
    /\ cursor' = "default"
    /\ UNCHANGED dragOffset
    /\ Quietly
    /\ UNCHANGED <<engineVars, moveVars, viewVars, appVars>>

\* the left button is released over the canvas: the browser dispatches mouseup
\* (onMouseUp) and then click (handleCanvasClick), with no event in between
mouseRelease ==
    LET shown == "default"
    IN  /\ isDragging' = FALSE
        /\ draggedSource' = 0
        /\ cursor' = shown
        /\ pointerLocked' = IF shown = "grab" THEN pointerLocked ELSE TRUE
        /\ UNCHANGED dragOffset
        /\ Quietly
        /\ UNCHANGED <<engineVars, player, playerFacing, playerPitch, nMoves, nLooks>>
        /\ UNCHANGED <<viewVars, appVars>>

\* toggleViewMode if it also put the listener back at the origin
toggleViewModeRecentre ==
    /\ viewMode' = IF viewMode = "topdown" THEN "firstperson" ELSE "topdown"
    /\ player' = Origin
    /\ Quietly
    /\ UNCHANGED <<engineVars, dragVars, appVars>>
    /\ UNCHANGED <<playerFacing, playerPitch, pointerLocked, nMoves, nLooks>>
    /\ UNCHANGED <<compositionMode, playerPos, visSources, frame>>

toggleViewMode ==
    /\ viewMode' = IF viewMode = "topdown" THEN "firstperson" ELSE "topdown"
    /\ Quietly
    /\ UNCHANGED <<engineVars, moveVars, dragVars, appVars>>
    /\ UNCHANGED <<compositionMode, playerPos, visSources, frame>>

\* toggleCompositionMode with the panners re-aimed at the frame's origin
toggleCompositionModeRepan ==
    /\ compositionMode' = ~compositionMode
    /\ LET E == repositionEach([Engine EXCEPT !.listener = Origin], order)
       IN  nodes' = E.nodes /\ Step(E)
    /\ UNCHANGED <<sources, order, nextSourceId, listener, isPlaying, orientation>>
    /\ UNCHANGED <<moveVars, dragVars, appVars>>
    /\ UNCHANGED <<viewMode, playerPos, visSources, frame>>

toggleCompositionMode ==
    /\ compositionMode' = ~compositionMode
    /\ Quietly
    /\ UNCHANGED <<engineVars, moveVars, dragVars, appVars>>
    /\ UNCHANGED <<viewMode, playerPos, visSources, frame>>

\* ------------------------------------- engine calls made by the UI handlers
Quiet == UNCHANGED <<orientation, moveVars, dragVars, viewVars, appVars>>

\* SpatialAudioEngine.setSourcePosition(sourceId, position)
SetSourcePosition(sourceId, position) ==
    /\ LET E == setSourcePosition(Engine, sourceId, position)
       IN  Commit(E) /\ Step(E)
    /\ Quiet

\* SpatialAudioEngine.setSourceVolume(sourceId, volume)
SetSourceVolume(sourceId, volume) ==
    /\ LET E == setSourceVolume(Engine, sourceId, volume)
       IN  Commit(E) /\ Step(E)
    /\ Quiet

\* the lock button: toggleSourceLock, then the list is rendered again
ToggleSourceLock(sourceId) ==
    /\ LET E == toggleSourceLock(Engine, sourceId)
       IN  Commit(E) /\ Step(E)
    /\ Quiet

\* SpatialAudioEngine.setSourceLocked(sourceId, locked)
SetSourceLocked(sourceId, locked) ==
    /\ LET E == setSourceLocked(Engine, sourceId, locked)
       IN  Commit(E) /\ Step(E)
    /\ Quiet

\* SpatialAudioEngine.startSource(sourceId)
StartSource(sourceId) ==
    /\ LET E == startSource(Engine, sourceId)
       IN  Commit(E) /\ Step(E)
    /\ Quiet

\* SpatialAudioEngine.stopSource(sourceId)
StopSource(sourceId) ==
    /\ LET E == stopSource(Engine, sourceId)
       IN  Commit(E) /\ Step(E)
    /\ Quiet

\* the remove button: SourceManager.removeSource(sourceId)
RemoveSource(sourceId) ==
    /\ LET E == removeSource(Engine, sourceId)
       IN  Commit(E) /\ Step(E)
    /\ Quiet

\* the ended event of a stopped node is delivered: its onended handler clears
\* the route fields of the source object it was created for
Ended(h) ==
    /\ h \in 1..Len(nodes)
    /\ nodes[h].pending
    /\ nodes' = [nodes EXCEPT ![h].pending = FALSE]
    /\ sources' = [sources EXCEPT ![nodes[h].owner].isPlaying = FALSE,
                                  ![nodes[h].owner].node = NullRoute,
                                  ![nodes[h].owner].gainNode = NullRoute,
                                  ![nodes[h].owner].panner = NullRoute]
    /\ Quietly
    /\ UNCHANGED <<order, nextSourceId, listener, isPlaying>>
    /\ Quiet

\* ------------------------------------------------------------ SourceManager
\* what parseFloat returns: a number, or NaN
Num(v) == [nan |-> FALSE, v |-> v]

NaN == [nan |-> TRUE, v |-> 0]

\* SourceManager.updateSourcePosition if it wrote the axes that parse
SourceManager_updateSourcePositionPartial(E, sourceId, ix, iy, iz) ==
    IF ~Has(E, sourceId) THEN E
    ELSE LET old == E.sources[sourceId].position
             newPosition == Vec(IF ix.nan THEN old.x ELSE ix.v,
                                IF iy.nan THEN old.y ELSE iy.v,
                                IF iz.nan THEN old.z ELSE iz.v)
             E1 == setSourcePosition(E, sourceId, newPosition)
         IN  IF ix.nan \/ iy.nan \/ iz.nan
             THEN [E1 EXCEPT !.fx = Append(@, <<"alert", sourceId>>)]
             ELSE E1

\* SourceManager.updateSourcePosition(sourceId) with the three coordinate
\* inputs as parseFloat reads them (a number, or NaN): the engine it leaves,
\* the alert it shows logged with the effects
SourceManager_updateSourcePosition(E, sourceId, ix, iy, iz) ==
    IF ~Has(E, sourceId) THEN E
    ELSE LET hasInvalidInput == ix.nan \/ iy.nan \/ iz.nan
             newPosition == Vec(ix.v, iy.v, iz.v)
         IN  IF hasInvalidInput
             THEN [E EXCEPT !.fx = Append(@, <<"alert", sourceId>>)]
             ELSE setSourcePosition(E, sourceId, newPosition)

\* the Update button of a source's coordinate panel; renderSource draws the
\* inputs and the button of a locked source disabled, so no event comes
\* from them
UpdateSourcePosition(sourceId, ix, iy, iz) ==
    /\ Has(Engine, sourceId)
    /\ ~sources[sourceId].locked
    /\ LET E == SourceManager_updateSourcePosition(Engine, sourceId, ix, iy, iz)
       IN  Commit(E) /\ Step(E)
    /\ Quiet

\* ----------------------------------------------- FileLoader / SHACSimulator
\* FileLoader.getDefaultPosition(index)
getDefaultPosition(index) ==
    LET radius == 10 * Unit
        angle == index * 45 * DegStep
    IN  Vec(Round(Cos(angle) * radius, Trig), 0, Round(Sin(angle) * radius, Trig))

\* handleFiles(files) is called with n files
HandleFiles(n) ==
    /\ n > 0
    /\ batches' = Append(batches, [left |-> n, loaded |-> 0])
    /\ Quietly
    /\ UNCHANGED <<engineVars, moveVars, dragVars, viewVars, timers, appPlaying>>

\* the decoding of the next file of batch b ends (ok or not); the loop body
\* runs, and after the last file the callback onFilesLoaded
Decoded(b, ok) ==
    /\ b \in 1..Len(batches)
    /\ batches[b].left > 0
    /\ LET loaded == batches[b].loaded
           E == IF ok THEN createSource(Engine, getDefaultPosition(loaded)) ELSE Engine
           loaded1 == IF ok THEN loaded + 1 ELSE loaded
           finished == batches[b].left = 1
       IN  /\ batches' = [batches EXCEPT ![b] = [left |-> @.left - 1, loaded |-> loaded1]]
           /\ Commit(E)
           /\ Step(E)
           /\ timers' = IF finished /\ loaded1 > 0 /\ ~appPlaying /\ Len(E.order) > 0
                        THEN timers + 1 ELSE timers
    /\ UNCHANGED <<orientation, moveVars, dragVars, viewVars, appPlaying>>

\* the auto-play timer of onFilesLoaded fires
AutoPlay ==
    /\ timers > 0
    /\ timers' = timers - 1
    /\ LET E == playAll(Engine)
       IN  Commit(E) /\ Step(E)
    /\ appPlaying' = TRUE
    /\ UNCHANGED <<orientation, moveVars, dragVars, viewVars, batches>>

\* the Play button
PlayClick ==
    /\ LET E == playAll(Engine)
       IN  Commit(E) /\ Step(E)
    /\ appPlaying' = TRUE
    /\ UNCHANGED <<orientation, moveVars, dragVars, viewVars, batches, timers>>

\* the Pause button
PauseClick ==
    /\ LET E == pauseAll(Engine)
       IN  Commit(E) /\ Step(E)
    /\ appPlaying' = FALSE
    /\ UNCHANGED <<orientation, moveVars, dragVars, viewVars, batches, timers>>

\* ------------------------------------------------------------ specification
\* the state after construction, with n events allowed
Start(n) ==
    /\ sources = [id \in {} |-> 0]
    /\ order = <<>>
    /\ nextSourceId = 1
    /\ nodes = <<>>
    /\ listener = Origin
    /\ isPlaying = FALSE
    /\ orientation = Vec(0, 0, -Trig)
    /\ player = Origin
    /\ playerFacing = 0
    /\ playerPitch = 0
    /\ pointerLocked = FALSE
    /\ nMoves = 0
    /\ nLooks = 0
    /\ viewMode = "topdown"
    /\ compositionMode = TRUE
    /\ isDragging = FALSE
    /\ draggedSource = 0
    /\ dragOffset = Pt(0, 0)
    /\ playerPos = Origin
    /\ visSources = <<>>
    /\ cursor = "default"
    /\ frame = [src |-> [id \in {} |-> 0], lines |-> [id \in {} |-> 0],
                player |-> Pt(centerX, centerY),
                view |-> "topdown", composition |-> TRUE]
    /\ batches = <<>>
    /\ timers = 0
    /\ appPlaying = FALSE
    /\ effects = <<>>
    /\ unlockedAt = [id \in {} |-> Origin]
    /\ budget = n

Init == Start(MaxEvents)

\* the inputs the model draws from
IdArgs == 1..MaxSources

Coords == {5 * Unit, -10 * Unit}

PanelInputs == {Num(c) : c \in Coords} \cup {NaN}

MousePoints == {Pt(600 * Unit, 300 * Unit), Pt(500 * Unit, 300 * Unit),
                Pt(300 * Unit, 310 * Unit)}

Volumes == {-(Unit \div 2), Unit \div 2, 2 * Unit}

Keys == {"w", "a", "q"}

LookDeltas == {-450, 0, 450}

Axes == {-100, 0, 100}

\* files still to be decoded, over all batches
RECURSIVE Pending(_)
Pending(bs) == IF bs = <<>> THEN 0 ELSE Head(bs).left + Pending(Tail(bs))

\* a handler that starts n routes stays within the bound on nodes
NodesLeft(n) == Len(nodes) + n <= MaxNodes

Next ==
    \/ \E n \in 1..2 :
          /\ Len(batches) < MaxBatches
          /\ (nextSourceId - 1) + Pending(batches) + n <= MaxSources
          /\ HandleFiles(n)
    \/ \E b \in 1..MaxBatches, ok \in BOOLEAN : Decoded(b, ok)
    \/ NodesLeft(Len(order)) /\ AutoPlay
    \/ NodesLeft(Len(order)) /\ PlayClick
    \/ PauseClick
    \/ \E id \in IdArgs : NodesLeft(1) /\ StartSource(id)
    \/ \E id \in IdArgs : StopSource(id)
    \/ \E id \in IdArgs : RemoveSource(id)
    \/ \E h \in 1..MaxNodes : Ended(h)
    \/ \E id \in IdArgs, v \in Volumes : SetSourceVolume(id, v)
    \/ \E id \in IdArgs : ToggleSourceLock(id)
    \/ \E id \in IdArgs, b \in BOOLEAN : SetSourceLocked(id, b)
    \/ \E id \in IdArgs, x \in Coords : SetSourcePosition(id, Vec(x, 0, 0))
    \/ \E id \in IdArgs, ix \in PanelInputs, iz \in PanelInputs :
          UpdateSourcePosition(id, ix, Num(2 * Unit), iz)
    \/ \E k \in Keys, sh \in BOOLEAN : nMoves < MaxMoves /\ handleKeyDown(k, sh)
    \/ \E dx \in LookDeltas, dy \in LookDeltas :
          nLooks < MaxLooks /\ handleMouseMove(dx, dy)
    \/ \E a0 \in Axes, a2 \in Axes, rb \in BOOLEAN :
          /\ nMoves < MaxMoves
          /\ nLooks < MaxLooks
          /\ updateGamepad(a0, 0, a2, 0, rb, FALSE)
    \/ resetPosition
    \/ handleCanvasClick
    \/ handlePointerLockChange
    \/ \E m \in MousePoints : onMouseDown(m)
    \/ \E m \in MousePoints : onMouseMove(m)
    \/ onMouseUp
    \/ toggleViewMode
    \/ toggleCompositionMode
    \/ render

Spec == Init /\ [][Next]_vars

\* the positions a caller may hand to setSourcePosition
Positions == {Vec(x, y, z) : x \in Coords \cup {0}, y \in {0, 2 * Unit}, z \in Coords \cup {0}}

\* C1: a source that is locked before and after a step has the same position
\* before and after it, whichever handler took the step.
LockedPositionFrozen ==
    [][\A id \in Ids(Engine) :
          (sources[id].locked /\ sources'[id].locked)
              => sources'[id].position = sources[id].position]_vars

\* every active panner holds its source's position minus the listener position
PannerOffsets ==
    \A id \in Ids(Engine) :
        sources[id].panner # NullRoute
            => nodes[sources[id].panner].pan = VSub(sources[id].position, listener)

\* C6: a step that switches the reference-frame mode writes no audio
\* parameter and leaves every route as it was, and after every step, in
\* either mode, each active panner holds source position minus listener
\* position.
ModeIndependentOffsets ==
    [][/\ compositionMode' # compositionMode => (nodes' = nodes /\ effects' = <<>>)
       /\ PannerOffsets']_vars

\* C6 witness: the mode is Authoring, the listener is away from the origin and
\* a source is playing with its panner aimed relative to the listener
AuthoringWhilePlaying ==
    /\ ~compositionMode
    /\ listener # Origin
    /\ \E id \in Ids(Engine) :
          /\ sources[id].panner # NullRoute
          /\ nodes[sources[id].panner].playing
          /\ nodes[sources[id].panner].pan = VSub(sources[id].position, listener)

\* C7: a step that takes a source out of the scene first stops the route the
\* source holds, if it holds one, and then deletes the source; a source once
\* out of the scene stays out; and no step writes a panner or gain parameter
\* of a route whose source is not in the scene.
RemovalStopsRoute ==
    [][/\ \A id \in Ids(Engine) :
             LET h == sources[id].node
             IN  id \notin Ids(Engine') =>
                     /\ effects' = (IF h # NullRoute THEN << <<"stop", h>> >> ELSE <<>>)
                                       \o << <<"delete", id>> >>
                     /\ h # NullRoute => ~nodes'[h].playing
       /\ \A id \in DOMAIN sources \ Ids(Engine) : id \notin Ids(Engine')
       /\ \A i \in 1..Len(effects') :
             effects'[i][1] \in {"panner", "gain"}
                 => nodes'[effects'[i][2]].owner \in Ids(Engine')]_vars

\* C7 witness: a source with a playing route has just been removed
RemovedWhilePlaying ==
    \E id \in DOMAIN sources \ Ids(Engine) :
        \E h \in 1..Len(nodes) :
            /\ nodes[h].owner = id
            /\ ~nodes[h].playing
            /\ effects = << <<"stop", h>>, <<"delete", id>> >>

\* C10: for a source in the scene that has been unlocked and is unlocked,
\* setSourcePosition(id, p) makes its position p, for every p.
UnlockedSourceAcceptsPosition ==
    \A id \in DOMAIN unlockedAt :
        (Has(Engine, id) /\ ~sources[id].locked)
            => \A p \in Positions :
                   setSourcePosition(Engine, id, p).sources[id].position = p

\* C10 witness: a source was locked, then unlocked, and its position has been
\* set to another one since
MovedAfterUnlock ==
    \E id \in DOMAIN unlockedAt :
        /\ Has(Engine, id)
        /\ ~sources[id].locked
        /\ sources[id].position # unlockedAt[id]

\* C17: stopSource on a source with no active route returns the engine as it
\* is, with no audio effect, and stopSource twice in a row leaves what
\* stopSource once leaves, for every source and in every reachable state.
StopSourceIdempotent ==
    \A id \in IdArgs :
        LET once == stopSource(Engine, id)
            twice == stopSource([once EXCEPT !.fx = <<>>], id)
        IN  /\ (Has(Engine, id) /\ sources[id].node = NullRoute) => once = Engine
            /\ twice = [once EXCEPT !.fx = <<>>]
            /\ Has(Engine, id) =>
                  /\ once.sources[id].node = NullRoute
                  /\ ~once.sources[id].isPlaying

\* C17 witness: a source that was playing has been stopped, so that its
\* route is inactive
StoppedOnce ==
    \E id \in Ids(Engine), h \in 1..Len(nodes) :
        /\ nodes[h].owner = id
        /\ ~nodes[h].playing
        /\ sources[id].node = NullRoute
        /\ ~sources[id].isPlaying
        /\ effects = <<<<"stop", h>>>>

\* C19: a step that changes the view mode or the reference-frame mode changes
\* one of the two flags only: the listener's position, yaw and pitch (the
\* controller's and the engine's) and every source's position, volume, lock
\* flag and playback state, with its routes, are the same before and after,
\* and the step has no audio effect.
TogglesChangeOnlyTheirFlag ==
    [][(viewMode' # viewMode \/ compositionMode' # compositionMode) =>
          /\ viewMode' = viewMode \/ compositionMode' = compositionMode
          /\ UNCHANGED <<player, playerFacing, playerPitch, listener, orientation>>
          /\ UNCHANGED <<sources, order, nodes, isPlaying>>
          /\ effects' = <<>>]_vars

\* C19 witness: both flags have been toggled while a source was playing; the
\* latest event had no audio effect
ToggledWhilePlaying ==
    /\ viewMode = "firstperson"
    /\ ~compositionMode
    /\ effects = <<>>
    /\ budget = 0
    /\ \E id \in Ids(Engine) :
          /\ sources[id].isPlaying
          /\ sources[id].node # NullRoute
          /\ nodes[sources[id].node].playing

\* volumes to call setSourceVolume with, in hundredths: the ones the runs
\* use, the ends of [0, 1] and their neighbours
VolumeArgs == Volumes \cup {-1, 0, 1, Unit - 1, Unit, Unit + 1, -30 * Unit, 30 * Unit}

\* v clamped to [0, 1]
Clamped(v) == IF v < 0 THEN 0 ELSE IF v > Unit THEN Unit ELSE v

\* C20: in every reachable state every source's volume is in [0, 1] and the
\* gain node of a source with an active route holds the source's volume;
\* and setSourceVolume(id, v), for every source and every v of VolumeArgs,
\* leaves v clamped to [0, 1] as the volume and, if the source has an active
\* route, as the value of its gain node.
VolumeClamped ==
    \A id \in Ids(Engine) :
        /\ 0 <= sources[id].volume /\ sources[id].volume <= Unit
        /\ sources[id].gainNode # NullRoute =>
              nodes[sources[id].gainNode].gain = sources[id].volume
        /\ \A v \in VolumeArgs :
              LET E == setSourceVolume(Engine, id, v)
              IN  /\ E.sources[id].volume = Clamped(v)
                  /\ E.sources[id].gainNode = sources[id].gainNode
                  /\ sources[id].gainNode # NullRoute =>
                        E.nodes[sources[id].gainNode].gain = Clamped(v)

\* C20 witness: a negative volume was set on a playing source: the stored
\* volume and the gain are 0
SilencedWhilePlaying ==
    \E id \in Ids(Engine) :
        /\ sources[id].volume = 0
        /\ sources[id].gainNode # NullRoute
        /\ nodes[sources[id].gainNode].playing
        /\ nodes[sources[id].gainNode].gain = 0
        /\ effects = <<<<"gain", sources[id].gainNode>>>>

\* C22: the listener pose starts at position (0, 0, 0), yaw 0, pitch 0, in the
\* controller and in the engine, and every resetPosition step leaves exactly
\* that pose in both: the engine's listener at the origin, its forward vector
\* (0, 0, -1), the panner of every source with an active route holding the
\* source's position (a write per panner), and the sources as they were.
ResetRestoresPose ==
    /\ player = Origin /\ playerFacing = 0 /\ playerPitch = 0
    /\ listener = Origin /\ orientation = Vec(0, 0, -Trig)
    /\ [][resetPosition =>
            /\ player' = Origin /\ playerFacing' = 0 /\ playerPitch' = 0
            /\ listener' = Origin
            /\ orientation' = Vec(0, 0, -Trig)
            /\ order' = order
            /\ \A id \in Ids(Engine) :
                  /\ sources'[id] = sources[id]
                  /\ sources[id].panner # NullRoute =>
                        /\ nodes'[sources[id].panner].pan = sources[id].position
                        /\ \E i \in 1..Len(effects') :
                              effects'[i] = <<"panner", sources[id].panner>>]_vars

\* C22 witness: after a walk away from the origin while a source was playing,
\* a reset has put the listener back and re-aimed the panner
ResetWhilePlaying ==
    /\ nMoves > 0
    /\ player = Origin
    /\ listener = Origin
    /\ \E id \in Ids(Engine) :
          /\ sources[id].panner # NullRoute
          /\ nodes[sources[id].panner].playing
          /\ nodes[sources[id].panner].pan = sources[id].position
          /\ effects = <<<<"panner", sources[id].panner>>>>

\* C23: every buffer node that has been started and not stopped is the node
\* its source references, and that source is in the scene: no node plays
\* untracked, so that pauseAll and removeSource reach every playing node.
NoUntrackedNode ==
    \A h \in 1..Len(nodes) :
        nodes[h].playing =>
            /\ Has(Engine, nodes[h].owner)
            /\ sources[nodes[h].owner].node = h

\* C24: in every reachable state (so after every operation) the engine's
\* listener position is the movement controller's, and the panner of every
\* source with an active route holds that source's current position minus
\* the controller's current listener position.
PannersFollowPositions ==
    /\ listener = player
    /\ \A id \in Ids(Engine) :
          sources[id].panner # NullRoute =>
              LET pan == nodes[sources[id].panner].pan
              IN  /\ pan.x = sources[id].position.x - player.x
                  /\ pan.y = sources[id].position.y - player.y
                  /\ pan.z = sources[id].position.z - player.z

\* C24 witness: a source is playing, it has been moved off its default
\* position and the listener has walked away from the origin
MovedBothWhilePlaying ==
    /\ player # Origin
    /\ \E id \in Ids(Engine) :
          /\ sources[id].panner # NullRoute
          /\ nodes[sources[id].panner].playing
          /\ \A i \in 0..MaxSources : sources[id].position # getDefaultPosition(i)
          /\ nodes[sources[id].panner].pan = VSub(sources[id].position, player)

\* the panners and the gain nodes of the sources with an active route
ActivePanners == {sources[id].panner : id \in Ids(Engine)} \ {NullRoute}

ActiveGains == {sources[id].gainNode : id \in Ids(Engine)} \ {NullRoute}

\* the parameter writes of E.fx go to the nodes of `to` only, and E leaves
\* every other node as it is
WritesOnly(E, to) ==
    /\ \A i \in 1..Len(E.fx) : E.fx[i][1] \in {"panner", "gain"} /\ E.fx[i][2] \in to
    /\ Len(E.nodes) = Len(nodes)
    /\ \A h \in 1..Len(nodes) : h \notin to => E.nodes[h] = nodes[h]

\* whether source id has an active route
Routed(id) == sources[id].panner # NullRoute

\* listener positions to call updateListenerPosition with
ListenerArgs == {Origin, player, Vec(3 * Unit, Unit, -48 * Unit)}

\* C25: in every reachable state, setSourcePosition and setSourceVolume on a
\* source write to that source's panner or gain node if its route is active
\* and write nothing if it is not, and updateListenerPosition writes to the
\* panners of the sources with an active route and to nothing else.
WritesOnlyToActiveRoutes ==
    /\ \A id \in Ids(Engine) :
          /\ \A p \in Positions :
                WritesOnly(setSourcePosition(Engine, id, p),
                           IF Routed(id) THEN {sources[id].panner} ELSE {})
          /\ \A v \in Volumes :
                WritesOnly(setSourceVolume(Engine, id, v),
                           IF Routed(id) THEN {sources[id].gainNode} ELSE {})
          /\ Routed(id) <=> sources[id].gainNode # NullRoute
    /\ \A q \in ListenerArgs :
          /\ WritesOnly(updateListenerPosition(Engine, q), ActivePanners)
          /\ Len(updateListenerPosition(Engine, q).fx) = Cardinality(ActivePanners)

\* C25 witness: with one source playing and another one not, a walk of the
\* listener has written to the one active panner only
WroteToOneOfTwo ==
    /\ player # Origin
    /\ \E id \in Ids(Engine), other \in Ids(Engine) :
          /\ Routed(id)
          /\ ~Routed(other)
          /\ effects = <<<<"panner", sources[id].panner>>>>

\* the playback route fields of a source object
RouteFields(source) == <<source.node, source.gainNode, source.panner, source.isPlaying>>

InactiveRoute(source) == RouteFields(source) = <<NullRoute, NullRoute, NullRoute, FALSE>>

ActiveRoute(source) ==
    /\ source.node # NullRoute
    /\ source.gainNode # NullRoute
    /\ source.panner # NullRoute
    /\ source.isPlaying

\* C39: the playback route of every source ever created is fully Inactive
\* (node, gainNode and panner null, isPlaying false) or fully Active (all
\* three set, isPlaying true), and a step changes these fields of a source
\* only by startSource (a route is started for it), by stopSource (its route
\* is stopped and it is left Inactive) or by the onended callback of one of
\* its routes.
RouteAllOrNothing ==
    /\ [](\A id \in DOMAIN sources :
             InactiveRoute(sources[id]) \/ ActiveRoute(sources[id]))
    /\ [][
          \A id \in DOMAIN sources :
              RouteFields(sources'[id]) # RouteFields(sources[id])
                 => \/ \E i \in 1..Len(effects') :
                          effects'[i] = <<"start", sources'[id].node>>
                    \/ /\ InactiveRoute(sources'[id])
                       /\ \E i \in 1..Len(effects') :
                             effects'[i] = <<"stop", sources[id].node>>
                    \/ \E h \in 1..MaxNodes : Ended(h) /\ nodes[h].owner = id
       ]_vars

\* C39 witness: a source was started twice, and the onended callback of its
\* first route has left it Inactive while its second route plays
ClearedByOnended ==
    \E id \in Ids(Engine), h \in 1..Len(nodes) :
        /\ InactiveRoute(sources[id])
        /\ nodes[h].owner = id
        /\ nodes[h].playing

\* ------------------------------------------------- the canvas drag handlers
\* Files are loaded, the scene is rendered and sources are dragged on the
\* canvas, while the lock button, the Comp button and the keyboard are used.
InitDrag == Start(MaxDragEvents)

\* on the first default position in Composition mode; off every source
DragPoints == {Pt(600 * Unit, 300 * Unit), Pt(300 * Unit, 310 * Unit),
               Pt(545 * Unit, 165 * Unit)}

NextDrag ==
    \/ \E n \in 1..2 :
          /\ Len(batches) < MaxBatches
          /\ (nextSourceId - 1) + Pending(batches) + n <= MaxSources
          /\ HandleFiles(n)
    \/ \E b \in 1..MaxBatches : Decoded(b, TRUE)
    \/ render
    \/ \E m \in DragPoints : onMouseDown(m)
    \/ \E m \in DragPoints : onMouseMove(m)
    \/ onMouseUp
    \/ \E id \in IdArgs : ToggleSourceLock(id)
    \/ \E id \in IdArgs : RemoveSource(id)
    \/ toggleCompositionMode
    \/ nMoves < MaxMoves /\ handleKeyDown("a", FALSE)

SpecDrag == InitDrag /\ [][NextDrag]_vars

\* C2: a pointer-move of a drag whose source is locked leaves that source's
\* position as it was (the drag handlers are the only writers of positions
\* in this specification).
LockStopsDrag ==
    [][(/\ isDragging
        /\ draggedSource # 0
        /\ sources[draggedSource].locked
        /\ sources'[draggedSource].locked)
           => sources'[draggedSource].position = sources[draggedSource].position]_vars

\* listener positions for the projections, besides the ones the runs reach
Listeners == {Origin, Vec(-(Unit \div 2), 0, 0), Vec(3 * Unit, Unit, -48 * Unit)}

\* C9: for every world position p (the positions of the sources in the scene
\* and a grid of others), both reference-frame modes and every listener
\* position (the controller's, the one the view holds, and others), the drag
\* inverse applied to the screen position of p, as onMouseDown and as
\* drawSource compute it, is p.
DragInvertsProjection ==
    \A p \in Positions \cup {sources[id].position : id \in Ids(Engine)} :
        \A composition \in BOOLEAN, pp \in Listeners \cup {player, playerPos} :
            LET source == [position |-> p]
                none == Pt(0, 0)
            IN  /\ dragWorld(hitScreen(source, composition, pp), none,
                             composition, pp, p.y) = p
                /\ dragWorld(drawScreen(source, composition, pp), none,
                             composition, pp, p.y) = p

\* C9 witness: in Authoring mode, with the listener away from the origin, a
\* pointer-move of a drag has put the dragged source where the inverse
\* projection of the pointer says
DraggedInAuthoring ==
    /\ isDragging
    /\ ~compositionMode
    /\ playerPos # Origin
    /\ Has(Engine, draggedSource)
    /\ \E m \in DragPoints :
          /\ sources[draggedSource].position =
                 dragWorld(m, dragOffset, FALSE, playerPos,
                           sources[draggedSource].position.y)
          /\ sources[draggedSource].position # getDefaultPosition(draggedSource - 1)

\* ids that are not in the scene: never created, removed, or the null id
UnknownIds == ((IdArgs \cup DOMAIN sources) \cup {0, draggedSource}) \ Ids(Engine)

\* C11: every engine operation given an id that is not in the scene returns
\* the engine as it is, with no audio effect; so does the setSourcePosition
\* call of a pointer-move of a drag whose source is not in the scene any more.
UnknownIdIsNoOp ==
    /\ \A id \in UnknownIds :
          /\ \A p \in Positions : setSourcePosition(Engine, id, p) = Engine
          /\ \A v \in Volumes : setSourceVolume(Engine, id, v) = Engine
          /\ toggleSourceLock(Engine, id) = Engine
          /\ \A b \in BOOLEAN : setSourceLocked(Engine, id, b) = Engine
          /\ startSource(Engine, id) = Engine
          /\ stopSource(Engine, id) = Engine
          /\ removeSource(Engine, id) = Engine
    /\ (isDragging /\ draggedSource # 0 /\ ~Has(Engine, draggedSource)) =>
          \A m \in DragPoints :
              setSourcePosition(Engine, draggedSource,
                                dragWorld(m, dragOffset, compositionMode, playerPos,
                                          sources[draggedSource].position.y)) = Engine

\* C11 witness: the source of a drag was removed while the button was held,
\* and a later event (a pointer-move among them) has been handled with no
\* audio effect
RemovedMidDrag ==
    /\ isDragging
    /\ draggedSource # 0
    /\ ~Has(Engine, draggedSource)
    /\ effects = <<>>

\* the pointer at m is within the pick radius of source id
UnderPointer(id, m) ==
    LET at == hitScreen(sources[id], compositionMode, playerPos)
    IN  WithinPick(m.x - at.x, m.y - at.y)

\* C26: in a step that starts a drag, the screen position that the hit test
\* computes for each source of the view is the position at which the latest
\* render pass drew it.
HitTestMatchesFrame ==
    [][(isDragging' /\ <<isDragging, draggedSource, dragOffset>>' #
                           <<isDragging, draggedSource, dragOffset>>) =>
          \A id \in SeqSet(visSources) \cap DOMAIN frame.src :
              hitScreen(sources[id], compositionMode, playerPos) = frame.src[id].at]_vars

\* the places, in the order of the latest render, of the unlocked sources
\* within the pick radius of the pointer at m
Candidates(m) ==
    {i \in 1..Len(visSources) :
        ~sources[visSources[i]].locked /\ UnderPointer(visSources[i], m)}

\* the least element of a non-empty set of numbers
Least(S) == CHOOSE i \in S : \A j \in S : i <= j

\* C27: a mousedown starts a drag on the first source, in the order of the
\* latest render, that is unlocked and strictly less than 30 pixels from the
\* pointer, which is the earliest-created of such sources; if there is none,
\* the drag state stays as it was. The order of the latest render is the
\* order of creation, and a pointer exactly 30 pixels from a source is not
\* within the radius while one a hundredth of a pixel closer is.
FirstUnlockedInRadius ==
    [][/\ \A m \in DragPoints :
             onMouseDown(m) =>
                 IF Candidates(m) = {}
                 THEN UNCHANGED <<isDragging, draggedSource, dragOffset>>
                 ELSE LET hit == visSources[Least(Candidates(m))]
                          at == hitScreen(sources[hit], compositionMode, playerPos)
                      IN  /\ isDragging'
                          /\ draggedSource' = hit
                          /\ dragOffset' = Pt(m.x - at.x, m.y - at.y)
                          /\ \A i \in Candidates(m) : hit <= visSources[i]
       /\ \A i \in 1..Len(visSources), j \in 1..Len(visSources) :
             i < j => visSources[i] < visSources[j]
       /\ \A id \in SeqSet(visSources) :
             LET at == hitScreen(sources[id], compositionMode, playerPos)
             IN  /\ ~UnderPointer(id, Pt(at.x + pickRadius, at.y))
                 /\ ~UnderPointer(id, Pt(at.x, at.y - pickRadius))
                 /\ ~UnderPointer(id, Pt(at.x - 18 * Unit, at.y + 24 * Unit))
                 /\ UnderPointer(id, Pt(at.x + pickRadius - 1, at.y))
                 /\ UnderPointer(id, Pt(at.x - 18 * Unit + 1, at.y + 24 * Unit))]_vars

\* C27 witness: source 2 was dragged next to source 1, and a mousedown with
\* both unlocked and within the radius has started a drag on source 1
GrabbedEarliestOfTwo ==
    /\ isDragging
    /\ draggedSource = 1
    /\ Has(Engine, 1) /\ Has(Engine, 2)
    /\ ~sources[1].locked /\ ~sources[2].locked
    /\ sources[1].position = getDefaultPosition(0)
    /\ sources[2].position # getDefaultPosition(1)
    /\ \E m \in DragPoints :
          /\ Candidates(m) = {1, 2}
          /\ LET at == hitScreen(sources[1], compositionMode, playerPos)
             IN  dragOffset = Pt(m.x - at.x, m.y - at.y)

\* where inside the pick radius a source is grabbed: dragOffset
GrabOffsets == {Pt(0, 0), Pt(29 * Unit, 0), Pt(-20 * Unit, -20 * Unit),
                Pt(360, 640), Pt(-40, 2980)}

\* C14: in Composition mode, for every source of the scene, every grab offset
\* inside the pick radius and every pointer position m2: grabbing the source
\* at m1 (onMouseDown's offset) and moving the pointer to m2 puts the source
\* at x + (m2.x - m1.x) / scale, the same y, z - (m2.y - m1.y) / scale.
\* With a source at (5, 0, 0), dragging from (500, 300) to (300, 300) puts it
\* at (-5, 0, 0).
DragIsDisplacement ==
    /\ compositionMode =>
          \A id \in Ids(Engine), o \in GrabOffsets, m2 \in DragPoints :
              LET p == sources[id].position
                  at == hitScreen(sources[id], compositionMode, playerPos)
                  m1 == Pt(at.x + o.x, at.y + o.y)
                  offset == Pt(m1.x - at.x, m1.y - at.y)
              IN  /\ UnderPointer(id, m1)
                  /\ (m2.x - m1.x) % scale = 0 /\ (m2.y - m1.y) % scale = 0
                  /\ dragWorld(m2, offset, compositionMode, playerPos, p.y) =
                         Vec(p.x + (m2.x - m1.x) \div scale, p.y,
                             p.z - (m2.y - m1.y) \div scale)
    /\ LET source == [position |-> Vec(5 * Unit, 0, 0)]
           at == hitScreen(source, TRUE, playerPos)
           m1 == Pt(500 * Unit, 300 * Unit)
       IN  /\ at = m1
           /\ dragWorld(Pt(300 * Unit, 300 * Unit), Pt(m1.x - at.x, m1.y - at.y),
                        TRUE, playerPos, 0) = Vec(-5 * Unit, 0, 0)

\* C14 witness: in Composition mode a source grabbed off its centre at m1 has
\* been dragged to m2, and is at its default position displaced by
\* (m2 - m1) / scale
DraggedOffCentre ==
    /\ isDragging
    /\ compositionMode
    /\ Has(Engine, draggedSource)
    /\ dragOffset # Pt(0, 0)
    /\ \E m1 \in DragPoints, m2 \in DragPoints :
          LET p0 == getDefaultPosition(draggedSource - 1)
              at == hitScreen([position |-> p0], TRUE, playerPos)
          IN  /\ m1 # m2
              /\ dragOffset = Pt(m1.x - at.x, m1.y - at.y)
              /\ sources[draggedSource].position =
                     Vec(p0.x + (m2.x - m1.x) \div scale, p0.y,
                         p0.z - (m2.y - m1.y) \div scale)

\* C12: the drag target is one source or none, a mousedown anywhere picks no
\* locked source (whatever lies under the pointer, in whatever order), and
\* no step makes a locked source the drag target.
DragTargetUnlocked ==
    [][/\ draggedSource' \in DOMAIN sources' \cup {0}
       /\ isDragging' => draggedSource' # 0
       /\ \A m \in DragPoints :
             LET hit == firstHit(visSources, m)
             IN  hit # 0 => (~sources[hit].locked /\ UnderPointer(hit, m))
       /\ (isDragging' /\ <<isDragging, draggedSource, dragOffset>>' #
                               <<isDragging, draggedSource, dragOffset>>)
             => ~sources[draggedSource'].locked]_vars

\* C12 witness: a drag is on source 2 although source 1, earlier in the
\* iteration order and locked, lies under the pointer that grabbed it
GrabbedBehindLocked ==
    /\ isDragging
    /\ draggedSource = 2
    /\ Has(Engine, 1)
    /\ sources[1].locked
    /\ \E m \in DragPoints :
          /\ UnderPointer(1, m)
          /\ UnderPointer(2, m)
          /\ LET at == hitScreen(sources[2], compositionMode, playerPos)
             IN  dragOffset = Pt(m.x - at.x, m.y - at.y)

\* ---------------------------------------------------------- the render pass
\* Files are loaded, sources are placed from the coordinate panel, the
\* listener turns and walks, the View and Comp buttons are used, and the
\* render loop draws the scene.
InitView == Start(MaxViewEvents)

NextView ==
    \/ \E n \in 1..2 :
          /\ Len(batches) < MaxBatches
          /\ (nextSourceId - 1) + Pending(batches) + n <= MaxSources
          /\ HandleFiles(n)
    \/ \E b \in 1..MaxBatches : Decoded(b, TRUE)
    \/ \E id \in IdArgs, ix \in PanelInputs, iz \in PanelInputs :
          UpdateSourcePosition(id, ix, Num(2 * Unit), iz)
    \/ \E id \in IdArgs : UpdateSourcePosition(id, Num(0), Num(2 * Unit), Num(0))
    \/ \E k \in Keys : nMoves < MaxMoves /\ handleKeyDown(k, TRUE)
    \/ handleCanvasClick
    \/ \E dx \in LookDeltas : nLooks < MaxLooks /\ handleMouseMove(dx, 0)
    \/ toggleViewMode
    \/ toggleCompositionMode
    \/ render

SpecView == InitView /\ [][NextView]_vars

\* C8: a source that the latest render pass culled by azimuth was drawn by a
\* pass in FirstPerson view and Composition mode.
CullingOnlyInComposedFirstPerson ==
    \A id \in DOMAIN frame.src :
        frame.src[id].verdict = "culled"
            => (frame.view = "firstperson" /\ frame.composition)

\* C18: for every source of the scene and every reading of the three
\* coordinate inputs: if any of them is NaN, the panel update leaves every
\* source and every route as they are and shows an alert; otherwise it shows
\* none and the source's position is the three values read.
InvalidInputRejected ==
    \A id \in Ids(Engine), ix \in PanelInputs, iy \in PanelInputs, iz \in PanelInputs :
        LET E == SourceManager_updateSourcePosition(Engine, id, ix, iy, iz)
        IN  IF ix.nan \/ iy.nan \/ iz.nan
            THEN /\ E.sources = sources
                 /\ E.nodes = nodes
                 /\ E.fx = <<<<"alert", id>>>>
            ELSE /\ E.sources[id].position = Vec(ix.v, iy.v, iz.v)
                 /\ \A i \in 1..Len(E.fx) : E.fx[i][1] # "alert"

\* C18 witness: the panel update of a source that was moved before has been
\* rejected with an alert
RejectedWithAlert ==
    \E id \in Ids(Engine) :
        /\ effects = <<<<"alert", id>>>>
        /\ sources[id].position # getDefaultPosition(id - 1)
        /\ sources[id].position.y = 2 * Unit

\* the projection of a world offset: x to the right, z up the screen
Project(x, z) == Pt(centerX + x * scale, centerY - z * scale)

\* C15: every render pass computes, for every source, the screen position
\* Project(x, z) of its world position in Composition mode and of its
\* position minus the listener's in Authoring mode, and puts the listener
\* marker at the projection of the listener's world position in Composition
\* mode and at the screen centre in Authoring mode. A source at (10, 0, 0)
\* is at (600, 300) in Composition mode.
DrawnAtProjection ==
    [][frame' # frame =>
          /\ \A id \in DOMAIN frame'.src :
                LET p == sources[id].position
                IN  frame'.src[id].at =
                        IF frame'.composition THEN Project(p.x, p.z)
                        ELSE Project(p.x - player.x, p.z - player.z)
          /\ frame'.player = IF frame'.composition THEN Project(player.x, player.z)
                             ELSE Pt(centerX, centerY)
          /\ drawSource([position |-> Vec(10 * Unit, 0, 0)], player, playerFacing,
                        viewMode, TRUE).at = Pt(600 * Unit, 300 * Unit)]_vars

\* C15 witness: a pass in Authoring mode with the listener away from the
\* origin has put the marker at the centre and a source at the projection of
\* its offset from the listener, which is not that of its world position
DrawnRelativeToListener ==
    /\ ~frame.composition
    /\ playerPos = player
    /\ player.x # 0
    /\ frame.player = Pt(centerX, centerY)
    /\ \E id \in DOMAIN frame.src \cap Ids(Engine) :
          LET p == sources[id].position
          IN  /\ frame.src[id].verdict = "drawn"
              /\ frame.src[id].at = Project(p.x - player.x, p.z - player.z)
              /\ frame.src[id].at # Project(p.x, p.z)

\* yaws to look along: the listener's, a tenth of a degree to either side,
\* and the quarter turns from it
Facings == {playerFacing + d : d \in {0, 1, -1, 90 * DegStep, -90 * DegStep,
                                      90 * DegStep + 1, 180 * DegStep}}

\* the bearing of the offset (x, z) minus the yaw, in [-180, 180)
Azimuth(x, z, facing) ==
    ((Atan2(x, z) - facing + 180 * DegStep) % (360 * DegStep)) - 180 * DegStep

\* the dot product of two vectors
Dot(a, b) == a.x * b.x + a.y * b.y + a.z * b.z

\* the offset updateSourcePosition sends to the panner of a source ten units
\* from the listener in the direction a forward movePlayer step travels
AheadOffset ==
    VSub(movePlayerUnclamped(listener, playerFacing, 0, 0, 10 * Unit), listener)

\* C29: with the pitch at 0, a source at view-relative azimuth 0 has a panner
\* offset with a positive dot product with the forward vector written to the
\* audio listener, and one at azimuth 180 a negative one: for every source
\* with an active route, and for a source placed straight ahead of the
\* listener in the direction of a forward step.
AheadIsAudiblyAhead ==
    playerPitch = 0 =>
        /\ \A id \in Ids(Engine) :
              sources[id].panner # NullRoute =>
                  LET pan == nodes[sources[id].panner].pan
                      az == Azimuth(pan.x, pan.z, playerFacing)
                  IN  (pan.x # 0 \/ pan.z # 0) =>
                          /\ az = 0 => Dot(pan, orientation) > 0
                          /\ az = -180 * DegStep => Dot(pan, orientation) < 0
        /\ Azimuth(AheadOffset.x, AheadOffset.z, playerFacing) = 0
              => Dot(AheadOffset, orientation) > 0

\* C30: the view-relative azimuth that a render pass in FirstPerson view
\* computes for a source away from the listener lies in (-180, 180]: it is
\* never -180.
AzimuthHalfOpen ==
    [][(frame' # frame /\ cullingOn(frame'.view)) =>
          \A id \in DOMAIN frame'.src :
              frame'.src[id].verdict # "coincident" =>
                  LET az == azimuthOf(sources[id].position.x - player.x,
                                      sources[id].position.z - player.z, playerFacing)
                  IN  -180 * DegStep < az /\ az <= 180 * DegStep]_vars

\* C31: a render pass skips a source as coincident with the listener iff the
\* distance between the two positions, as vectors of three coordinates, is
\* below 0.001 (a tenth of a grid step, so the distance is 0).
CoincidentIffSamePoint ==
    [][frame' # frame =>
          \A id \in DOMAIN frame'.src :
              frame'.src[id].verdict = "coincident"
                  <=> SqNorm(VSub(sources[id].position, player)) = 0]_vars

\* C16: when FOV culling applies, a source that is not at the listener is
\* culled iff |azimuth| > 90 and so passes the test iff |azimuth| <= 90, and
\* an on-canvas one is then drawn: in every render pass, and for every source
\* of the scene under every yaw of Facings. The test is symmetric about the
\* facing direction, and with the listener at the origin facing 0 a source
\* at (10, 0, 0) has azimuth 90 and is drawn.
CulledBeyondNinety ==
    [][/\ frame' # frame =>
             \A id \in DOMAIN frame'.src :
                 LET p == sources[id].position
                     az == Azimuth(p.x - player.x, p.z - player.z, playerFacing)
                 IN  (cullingOn(frame'.view) /\ frame'.src[id].verdict # "coincident")
                        => /\ frame'.src[id].verdict = "culled" <=> Abs(az) > 90 * DegStep
                           /\ frame'.src[id].verdict \in {"drawn", "offscreen"}
                                  <=> Abs(az) <= 90 * DegStep
       /\ \A id \in Ids(Engine), f \in Facings :
             LET p == sources[id].position
                 x == p.x - player.x
                 z == p.z - player.z
                 there == drawSource(sources[id], player, f, "firstperson",
                                     compositionMode).verdict
                 mirrored == drawSource([position |-> Vec(player.x - x, p.y, p.z)],
                                        player, -f, "firstperson",
                                        compositionMode).verdict
             IN  there # "coincident"
                    => /\ there = "culled" <=> Abs(Azimuth(x, z, f)) > 90 * DegStep
                       /\ there = "culled" <=> mirrored = "culled"
       /\ LET source == [position |-> Vec(10 * Unit, 0, 0)]
          IN  /\ Azimuth(10 * Unit, 0, 0) = 90 * DegStep
              /\ Azimuth(-10 * Unit, 0, 0) = -90 * DegStep
              /\ drawSource(source, Origin, 0, "firstperson",
                            compositionMode).verdict = "drawn"
              /\ drawSource(source, Origin, 3599, "firstperson",
                            compositionMode).verdict = "culled"]_vars

\* C16 witness: a pass in FirstPerson view has drawn a source at azimuth
\* exactly 90 and culled another one
DrawnAtNinety ==
    /\ frame.view = "firstperson"
    /\ playerPos = player
    /\ \E id \in DOMAIN frame.src \cap Ids(Engine) :
          LET p == sources[id].position
          IN  /\ Abs(Azimuth(p.x - player.x, p.z - player.z, playerFacing)) = 90 * DegStep
              /\ frame.src[id].verdict = "drawn"
    /\ \E id \in DOMAIN frame.src : frame.src[id].verdict = "culled"

\* C36: in the latest render pass, the angle line of every source that was
\* drawn runs from the screen position of the listener marker to the screen
\* position of that source.
AngleLineJoinsMarkerAndSource ==
    \A id \in DOMAIN frame.src :
        frame.src[id].verdict = "drawn"
           => /\ frame.lines[id].from = frame.player
              /\ frame.lines[id].to = frame.src[id].at

\* ----------------------------------------- the movement controller on its own
\* Long walks: 34 fast steps lead from the origin to the movement bubble.
InitMove == Start(MaxSteps)

WalkKeys == {"w", "q"}

\* (movementX, movementY) of a mouse-look event, in pixels
MouseLooks == {<<225, -500>>, <<-500, 225>>}

\* (axes[2], axes[3]) of a gamepad sample
StickLooks == {<<-100, 10>>, <<100, -100>>}

NextMove ==
    \/ \E k \in WalkKeys : handleKeyDown(k, TRUE)
    \/ handleCanvasClick
    \/ \E d \in MouseLooks : nLooks < MaxLooks /\ handleMouseMove(d[1], d[2])
    \/ \E a \in StickLooks :
          nLooks < MaxLooks /\ updateGamepad(0, 0, a[1], a[2], FALSE, FALSE)

SpecMove == InitMove /\ [][NextMove]_vars

\* the (strafe, vertical, forward) deltas movePlayer is called with: the keys
\* at both speeds, the left stick at full and half deflection, the bumpers
Deltas ==
    {KeyDelta(k, sp) : k \in MoveKeys, sp \in {moveSpeed, fastMoveSpeed}}
        \cup {Vec(Round(lx * Unit, 500), 0, Round(-ly * Unit, 500)) :
                 lx \in {-100, 0, 50}, ly \in {-50, 0, 100}}
        \cup {Vec(0, Unit \div 50, 0), Vec(0, -(Unit \div 50), 0)}

InBubble(p) == SqNorm(p) <= movementRadius * movementRadius

\* C3: the listener is never farther than movementRadius from the world
\* origin: not after any walk the model takes, and not after one more
\* movePlayer call with any key, stick or bumper delta, or a reset, from there.
MovementBubble ==
    /\ InBubble(player)
    /\ InBubble(listener)
    /\ InBubble(Origin)
    /\ \A d \in Deltas : InBubble(movePlayer(player, playerFacing, d.x, d.y, d.z))

\* C3 witness: a walk has run into the bubble off every axis, and movePlayer
\* has pulled the listener back to within two grid steps of the sphere
ClampTriggered ==
    /\ nMoves >= 34
    /\ player.x # 0 /\ player.y # 0 /\ player.z # 0
    /\ SqNorm(player) > (movementRadius - 2) * (movementRadius - 2)

\* c is q scaled by one positive factor, to within the rounding of one grid
\* step per axis: no axis changes side, and the cross products vanish
ScaledDown(c, q) ==
    /\ Sgn(c.x) * Sgn(q.x) >= 0 /\ Sgn(c.y) * Sgn(q.y) >= 0 /\ Sgn(c.z) * Sgn(q.z) >= 0
    /\ Abs(c.x) <= Abs(q.x) /\ Abs(c.y) <= Abs(q.y) /\ Abs(c.z) <= Abs(q.z)
    /\ Abs(c.x * q.y - c.y * q.x) <= Abs(q.x) + Abs(q.y)
    /\ Abs(c.y * q.z - c.z * q.y) <= Abs(q.y) + Abs(q.z)
    /\ Abs(c.z * q.x - c.x * q.z) <= Abs(q.z) + Abs(q.x)

\* p is on the sphere of radius movementRadius, to within two grid steps
OnSphere(p) ==
    /\ SqNorm(p) <= movementRadius * movementRadius
    /\ SqNorm(p) > (movementRadius - 2) * (movementRadius - 2)

\* C13: for every movePlayer call from a reachable position: if the position
\* after integration is outside the bubble, the result is that position
\* scaled by one positive factor and lies on the sphere of radius
\* movementRadius (both to the grid's rounding); otherwise the result is the
\* position after integration, unmodified.
ClampIsRadialProjection ==
    \A d \in Deltas :
        LET q == movePlayerUnclamped(player, playerFacing, d.x, d.y, d.z)
            c == movePlayer(player, playerFacing, d.x, d.y, d.z)
        IN  IF InBubble(q)
            THEN c = q
            ELSE ScaledDown(c, q) /\ OnSphere(c) /\ c # Origin

\* C13 witness: the listener has been pulled back onto the sphere off every
\* axis, and from here one delta triggers the clamp while another does not
ClampedOffAxis ==
    /\ OnSphere(player)
    /\ player.x # 0 /\ player.y # 0 /\ player.z # 0
    /\ \E d \in Deltas :
          ~InBubble(movePlayerUnclamped(player, playerFacing, d.x, d.y, d.z))
    /\ \E d \in Deltas :
          /\ d # Origin
          /\ InBubble(movePlayerUnclamped(player, playerFacing, d.x, d.y, d.z))

\* the world delta of a view-relative step at yaw facing
WorldDelta(strafe, vertical, forward, facing) ==
    Vec(Round(forward * Sin(facing), Trig) + Round(strafe * Cos(facing), Trig),
        vertical,
        Round(forward * Cos(facing), Trig) - Round(strafe * Sin(facing), Trig))

\* (strafe, vertical, forward) steps: right, fast left, back, fast forward,
\* down, and a diagonal of the left stick
ViewSteps == {Vec(moveSpeed, 0, 0), Vec(-fastMoveSpeed, 0, 0), Vec(0, 0, -moveSpeed),
              Vec(0, 0, fastMoveSpeed), Vec(0, -moveSpeed, 0),
              Vec(Unit \div 10, 0, -(Unit \div 5))}

\* C28: movePlayer(strafe, vertical, forward) from any reachable pose gives
\* the position plus (forward sin yaw + strafe cos yaw, vertical,
\* forward cos yaw - strafe sin yaw) whenever that is inside the bubble, and
\* a key step leaves yaw and pitch as they are. At yaw 0 forward is +Z and
\* strafe right is +X; at yaw 90 forward is +X and strafe right is -Z.
MoveIsViewRelative ==
    [][/\ \A d \in ViewSteps :
             LET w == WorldDelta(d.x, d.y, d.z, playerFacing)
                 q == Vec(player.x + w.x, player.y + w.y, player.z + w.z)
                 c == movePlayer(player, playerFacing, d.x, d.y, d.z)
             IN  IF InBubble(q) THEN c = q ELSE c # q /\ InBubble(c)
       /\ \A k \in WalkKeys :
             handleKeyDown(k, TRUE) =>
                 LET d == KeyDelta(k, fastMoveSpeed)
                     w == WorldDelta(d.x, d.y, d.z, playerFacing)
                     q == Vec(player.x + w.x, player.y + w.y, player.z + w.z)
                 IN  /\ UNCHANGED <<playerFacing, playerPitch>>
                     /\ IF InBubble(q) THEN player' = q
                        ELSE player' # q /\ InBubble(player')
       /\ movePlayer(Origin, 0, 0, 0, moveSpeed) = Vec(0, 0, moveSpeed)
       /\ movePlayer(Origin, 0, moveSpeed, 0, 0) = Vec(moveSpeed, 0, 0)
       /\ movePlayer(Origin, 90 * DegStep, 0, 0, moveSpeed) = Vec(moveSpeed, 0, 0)
       /\ movePlayer(Origin, 90 * DegStep, moveSpeed, 0, 0) = Vec(0, 0, -moveSpeed)
       /\ movePlayer(Origin, 90 * DegStep, 0, moveSpeed, 0) = Vec(0, moveSpeed, 0)]_vars

\* C28 witness: after a look to a yaw off the axes, one fast step forward has
\* moved the listener along both x and z by the sine and cosine of the yaw
SteppedAlongYaw ==
    /\ nMoves = 1
    /\ playerFacing % (90 * DegStep) # 0
    /\ player.x # 0 /\ player.z # 0
    /\ player = Vec(Round(fastMoveSpeed * Sin(playerFacing), Trig), 0,
                    Round(fastMoveSpeed * Cos(playerFacing), Trig))

\* C4: the yaw is in [0, 360) in every state
YawNormalized == 0 <= playerFacing /\ playerFacing < 360 * DegStep

\* pointer deltas (pixels) and stick deflections (hundredths) of one more look
PitchDeltas == {-1000, -1, 0, 1, 1000}

PitchAxes == {-100, -16, 0, 16, 100}

InitLoad == Start(MaxLoadEvents)

NextLoad ==
    \/ \E n \in 1..2 :
          /\ Len(batches) < MaxLoadBatches
          /\ (nextSourceId - 1) + Pending(batches) + n <= MaxLoadSources
          /\ HandleFiles(n)
    \/ \E b \in 1..MaxLoadBatches, ok \in BOOLEAN : Decoded(b, ok)
    \/ \E id \in 1..MaxLoadSources : RemoveSource(id)
    \/ \E id \in 1..MaxLoadSources : ToggleSourceLock(id)
    \/ \E id \in 1..MaxLoadSources : SetSourcePosition(id, Vec(5 * Unit, 0, 0))
    \/ NodesLeft(Len(order)) /\ AutoPlay
    \/ NodesLeft(Len(order)) /\ PlayClick
    \/ PauseClick

SpecLoad == InitLoad /\ [][NextLoad]_vars

\* C21: the ids of the sources in the scene are pairwise distinct; every
\* source ever created carries the id it is stored under, below nextSourceId;
\* a step that adds a source gives it an id that no source ever had, removed
\* ones included; and no step changes the id of a source.
SourceIdsUnique ==
    [][/\ \A i \in 1..Len(order'), j \in 1..Len(order') :
             order'[i] = order'[j] => i = j
       /\ \A id \in DOMAIN sources' :
             sources'[id].id = id /\ id < nextSourceId'
       /\ \A id \in Ids(Engine') \ Ids(Engine) :
             id \notin DOMAIN sources /\ id >= nextSourceId
       /\ \A id \in DOMAIN sources : sources'[id].id = sources[id].id]_vars

\* C21 witness: two batches are being decoded at once, each has produced a
\* source, a source has been removed, and a source with a greater id is in
\* the scene
CreatedAfterRemoval ==
    /\ Len(batches) = 2
    /\ batches[1].left > 0 /\ batches[1].loaded > 0
    /\ batches[2].loaded > 0
    /\ \E gone \in DOMAIN sources \ Ids(Engine), id \in Ids(Engine) : id > gone

\* C32: whenever the engine's isPlaying flag is true, every source in the
\* scene has an active playback route.
AllPlayTogether ==
    isPlaying => \A id \in Ids(Engine) : sources[id].node # NullRoute

\* the latest event was a Pause click that stopped the playing sources
JustPaused ==
    /\ ~appPlaying
    /\ ~isPlaying
    /\ effects # <<>>
    /\ \A i \in 1..Len(effects) : effects[i][1] = "stop"

\* C33: from the state a Pause click leaves, a step in which a source gets
\* an active playback route is a Play click (a file load starts no route
\* itself): no auto-play timer armed before the pause starts one.
PauseHolds ==
    [][(/\ JustPaused
        /\ \E id \in Ids(Engine) :
              sources[id].node = NullRoute /\ sources'[id].node # NullRoute)
           => PlayClick]_vars

\* the eight points of the circle getDefaultPosition spreads sources on
DefaultCircle == {getDefaultPosition(index) : index \in 0..7}

\* C37: while fewer than 8 sources have been ingested, the sources still at
\* the default position FileLoader gave them (the panel and the drag move a
\* source off the default circle here) are at pairwise distinct positions,
\* whatever the batches and the failed decodes.
DefaultPositionsDistinct ==
    nextSourceId - 1 < 8
       => \A id \in DOMAIN sources, other \in DOMAIN sources :
             (/\ id # other
              /\ sources[id].position \in DefaultCircle
              /\ sources[other].position \in DefaultCircle)
                => sources[id].position # sources[other].position

\* ------------------------------------------------------ clicks on the canvas
\* Files are loaded, the scene is rendered, and the mouse is pressed, moved and
\* released over the canvas; ESC releases the pointer lock.
InitClick == Start(MaxClickEvents)

NextClick ==
    \/ \E n \in 1..2 :
          /\ Len(batches) < MaxBatches
          /\ (nextSourceId - 1) + Pending(batches) + n <= MaxSources
          /\ HandleFiles(n)
    \/ \E b \in 1..MaxBatches : Decoded(b, TRUE)
    \/ render
    \/ \E m \in DragPoints : onMouseDown(m)
    \/ \E m \in DragPoints : onMouseMove(m)
    \/ mouseRelease
    \/ onMouseUp
    \/ handlePointerLockChange
    \/ toggleCompositionMode

SpecClick == InitClick /\ [][NextClick]_vars

\* C34: the click that ends the mousedown, mouseup, click sequence of a grabbed
\* source does not request pointer lock: releasing the button while a source
\* is the drag target leaves the pointer unlocked.
GrabNeverLocksPointer ==
    [][(mouseRelease /\ isDragging /\ draggedSource # 0) => ~pointerLocked']_vars

\* ------------------------------------------------------- the look controls
\* The pointer is locked and released, and the mouse and the right stick of a
\* gamepad turn the listener, in any order.
InitLook == Start(MaxLookEvents)

\* axes[2] and axes[3] of a gamepad sample: full deflection, or at rest
\* inside the deadzone
StickAxes == {-100, 10, 100}

NextLook ==
    \/ handleCanvasClick
    \/ handlePointerLockChange
    \/ \E dx \in LookDeltas, dy \in LookDeltas : handleMouseMove(dx, dy)
    \/ \E a2 \in StickAxes, a3 \in StickAxes : updateGamepad(0, 0, a2, a3, FALSE, FALSE)
    \/ resetPosition

SpecLook == InitLook /\ [][NextLook]_vars

\* C35: orientation input on one axis leaves the other axis as it was: a
\* gamepad sample whose right stick has no vertical deflection, and a
\* mouse-look event with deltaY = 0, leave the listener pitch unchanged.
PitchKeptByYawInput ==
    [][/\ \A a2 \in StickAxes, a3 \in StickAxes :
             (Stick(a3) = 0 /\ updateGamepad(0, 0, a2, a3, FALSE, FALSE))
                => playerPitch' = playerPitch
       /\ \A dx \in LookDeltas :
             handleMouseMove(dx, 0) => playerPitch' = playerPitch]_vars

\* C38: a drag ends on mouseup or mouseleave (afterwards isDragging is false
\* and no source is the drag target; isDragging holds iff a drag target is
\* set, in every reachable state); with no drag under way no source's position
\* changes, and a drag gets under way only by a mousedown that hits an unlocked
\* source; while pointer lock is active no drag starts and no position changes.
DragEndsOnRelease ==
    /\ [](isDragging <=> draggedSource # 0)
    /\ [][
          /\ (onMouseUp \/ mouseRelease) => (~isDragging' /\ draggedSource' = 0)
          /\ (~isDragging \/ pointerLocked)
                => \A id \in DOMAIN sources :
                      sources'[id].position = sources[id].position
          /\ (~isDragging /\ isDragging')
                => /\ ~pointerLocked
                   /\ \E m \in DragPoints : onMouseDown(m)
                   /\ ~sources[draggedSource'].locked
       ]_vars

\* C38 witness: a drag that moved a source off its default position has
\* ended by a release over the canvas, which also locked the pointer
ReleasedAfterDrag ==
    /\ ~isDragging
    /\ draggedSource = 0
    /\ pointerLocked
    /\ \E id \in Ids(Engine) : sources[id].position \notin DefaultCircle

====
